---- MODULE Spec2Model ----
(***************************************************************************)
(* Model of the chord-progression recommender (python/models).             *)
(*                                                                         *)
(* Python floats are modelled as exact rationals <<numerator, denominator>>*)
(* in lowest terms, so that equality of two probabilities is equality of   *)
(* the pairs.  Python dicts keep insertion order: every dict whose order   *)
(* the code can observe is a sequence of [k |-> key, v |-> value] entries  *)
(* (an "ordered dict").                                                    *)
(***************************************************************************)
EXTENDS Integers, Sequences, FiniteSets, TLC

VARIABLES
    df,          \* the training DataFrame: rows of (main_genre, parsed_chords)
    model,       \* the MarkovModel in memory
    build_args,  \* the arguments build_markov_model was called with
    call,        \* the query in progress: its arguments and its return value
    data,        \* the dictionary to_dict returned, and its arguments
    restored,    \* the MarkovModel from_dict made of data
    miner,       \* the PatternMiner extract_patterns returned, and its arguments
    disk,        \* the model directory: markov_model.json and patterns.json
    recommender, \* the ChordRecommender: markov, patterns, _loaded
    callers,     \* the concurrent callers of the recommender: where each one is
    _recommender \* the global singleton of get_recommender

vars ==
    <<df, model, build_args, call, data, restored, miner, disk, recommender, callers,
      _recommender>>

(***************************************************************************)
(* Bounds of the model.                                                    *)
(***************************************************************************)
\* rows of the training DataFrame
MaxRows == 3
\* preceding chords a caller passes as context
MaxContext == 2
\* largest top_n a caller asks for
MaxTopN == 2

(***************************************************************************)
(* Rationals standing for floats.                                          *)
(***************************************************************************)
RECURSIVE GCD(_, _)
GCD(a, b) == IF b = 0 THEN a ELSE GCD(b, a % b)

Rat(n, d) == LET g == GCD(n, d) IN IF n = 0 THEN <<0, 1>> ELSE <<n \div g, d \div g>>

RatLt(a, b) == a[1] * b[2] < b[1] * a[2]

RatLe(a, b) == a[1] * b[2] <= b[1] * a[2]

RatAdd(a, b) == Rat(a[1] * b[2] + b[1] * a[2], a[2] * b[2])

RatSub(a, b) == LET n == a[1] * b[2] - b[1] * a[2]
                IN IF n >= 0 THEN Rat(n, a[2] * b[2])
                   ELSE <<-(Rat(-n, a[2] * b[2])[1]), Rat(-n, a[2] * b[2])[2]>>

RatMulInt(a, k) == Rat(a[1] * k, a[2])

RatMin(a, b) == IF RatLe(a, b) THEN a ELSE b

Zero == <<0, 1>>

One == <<1, 1>>

\* int(x): truncation toward zero of a non-negative float
IntTrunc(a) == a[1] \div a[2]

RECURSIVE Pow10(_)
Pow10(k) == IF k = 0 THEN 1 ELSE 10 * Pow10(k - 1)

\* round(x, ndigits) of Python: to the nearest multiple of 10^-ndigits, a tie
\* going to the even neighbour
PyRound(a, ndigits) ==
    LET scaled == a[1] * Pow10(ndigits)
        fl == scaled \div a[2]
        rem2 == 2 * (scaled % a[2])
        up == rem2 > a[2] \/ (rem2 = a[2] /\ fl % 2 = 1)
    IN Rat(IF up THEN fl + 1 ELSE fl, Pow10(ndigits))

(***************************************************************************)
(* Ordered dicts.                                                          *)
(***************************************************************************)
ODKeys(d) == {d[i].k : i \in 1..Len(d)}

ODHas(d, key) == \E i \in 1..Len(d) : d[i].k = key

ODIdx(d, key) == CHOOSE i \in 1..Len(d) : d[i].k = key

ODGet(d, key, default) == IF ODHas(d, key) THEN d[ODIdx(d, key)].v ELSE default

\* d[key] = value: an existing key keeps its place, a new key goes last
ODPut(d, key, value) ==
    IF ODHas(d, key) THEN [d EXCEPT ![ODIdx(d, key)] = [k |-> key, v |-> value]]
    ELSE Append(d, [k |-> key, v |-> value])

\* d[k1][k2] += 1 on a defaultdict(lambda: defaultdict(int))
ODInc2(d, k1, k2) ==
    LET inner == ODGet(d, k1, <<>>)
    IN ODPut(d, k1, ODPut(inner, k2, ODGet(inner, k2, 0) + 1))

\* d[key] += 1 on a defaultdict(int)
ODInc(d, key) == ODPut(d, key, ODGet(d, key, 0) + 1)

(***************************************************************************)
(* The data the model is trained on.                                       *)
(***************************************************************************)
Genres == {"pop", "rock"}

Chords == {"C", "G", "Am", "F", "Dm", "E"}

\* chord lists a DataFrame row may hold (parsed_chords); the first three are
\* the progressions of the documented training scenario
Progressions ==
    { <<"C", "G", "Am", "F">>, <<"C", "G", "C">>, <<"C", "F", "C">>,
      <<"C">>, <<>>, <<"G", "C", "G", "Am", "F">> }

Rows == [genre : Genres, chords : Progressions]

CONTEXT_SEP == "|"

\* CONTEXT_SEP.join(parts)
RECURSIVE Join(_)
Join(parts) ==
    IF Len(parts) = 0 THEN ""
    ELSE IF Len(parts) = 1 THEN parts[1]
    ELSE parts[1] \o CONTEXT_SEP \o Join(Tail(parts))

(***************************************************************************)
(* MarkovModel: the five tables.                                           *)
(***************************************************************************)
MarkovModel_init ==
    [ transitions |-> <<>>, bigram_transitions |-> <<>>,
      trigram_transitions |-> <<>>, chord_frequencies |-> <<>>,
      genre_totals |-> <<>> ]

\* table[genre][k1][k2] = value, the genre and k1 created on first use
Put3(table, genre, k1, k2, value) ==
    LET g == ODGet(table, genre, <<>>)
    IN ODPut(table, genre, ODPut(g, k1, ODPut(ODGet(g, k1, <<>>), k2, value)))

add_transition(m, from_chord, to_chord, genre, probability) ==
    [m EXCEPT !.transitions = Put3(@, genre, from_chord, to_chord, probability)]

add_bigram_transition(m, context_key, to_chord, genre, probability) ==
    [m EXCEPT !.bigram_transitions = Put3(@, genre, context_key, to_chord, probability)]

add_trigram_transition(m, context_key, to_chord, genre, probability) ==
    [m EXCEPT !.trigram_transitions = Put3(@, genre, context_key, to_chord, probability)]

add_chord_frequency(m, chord, genre, frequency) ==
    [m EXCEPT !.chord_frequencies = ODPut(@, genre, ODPut(ODGet(@, genre, <<>>), chord, frequency))]

(***************************************************************************)
(* sorted(items, key=..., reverse=True): a stable sort, so items with      *)
(* equal keys keep their original order.  keys[i] is the key of s[i].      *)
(***************************************************************************)
SortedDesc(s, keys) ==
    LET pos(i) == 1 + Cardinality({j \in 1..Len(s) : RatLt(keys[i], keys[j])})
                    + Cardinality({j \in 1..(i - 1) : keys[j] = keys[i]})
    IN [p \in 1..Len(s) |-> s[CHOOSE i \in 1..Len(s) : pos(i) = p]]

\* the (k1, k2, value) items of a two-level dict, in iteration order
RECURSIVE Flatten(_)
Flatten(d) ==
    IF d = <<>> THEN <<>>
    ELSE [i \in 1..Len(d[1].v) |-> [k1 |-> d[1].k, k2 |-> d[1].v[i].k, v |-> d[1].v[i].v]]
         \o Flatten(Tail(d))

(***************************************************************************)
(* build_markov_model.                                                     *)
(***************************************************************************)
\* df[genre_column].value_counts(): progressions per genre, most frequent first
value_counts(frame) ==
    LET RECURSIVE count(_, _)
        count(acc, i) == IF i > Len(frame) THEN acc ELSE count(ODInc(acc, frame[i].genre), i + 1)
        counts == count(<<>>, 1)
    IN SortedDesc(counts, [i \in 1..Len(counts) |-> <<counts[i].v, 1>>])

\* mutant: a genre of exactly min_genre_size progressions is dropped
valid_genres_strict(frame, min_genre_size) ==
    LET kept == SelectSeq(value_counts(frame), LAMBDA e : e.v > min_genre_size)
    IN [i \in 1..Len(kept) |-> kept[i].k]

\* genre_counts[genre_counts >= min_genre_size].index.tolist()
valid_genres(frame, min_genre_size) ==
    LET kept == SelectSeq(value_counts(frame), LAMBDA e : e.v >= min_genre_size)
    IN [i \in 1..Len(kept) |-> kept[i].k]

\* frame[df[genre_column] == genre]
genre_df(frame, genre) == SelectSeq(frame, LAMBDA row : row.genre = genre)

Counters_init ==
    [ transition_counts |-> <<>>, from_chord_totals |-> <<>>, chord_counts |-> <<>>,
      total_chords |-> 0, bigram_counts |-> <<>>, bigram_totals |-> <<>>,
      trigram_counts |-> <<>>, trigram_totals |-> <<>> ]

\* one round of the loop over the positions of a progression (i is 1-based:
\* the code's i is i - 1)
CountPosition(acc, chord_list, i) ==
    LET from_chord == chord_list[i]
        to_chord == chord_list[i + 1]
        a1 == [acc EXCEPT !.transition_counts = ODInc2(@, from_chord, to_chord),
                          !.from_chord_totals = ODInc(@, from_chord),
                          !.chord_counts = ODInc(@, from_chord),
                          !.total_chords = @ + 1]
        bigram_key == Join(<<chord_list[i - 1], from_chord>>)
        a2 == IF i - 1 >= 1
              THEN [a1 EXCEPT !.bigram_counts = ODInc2(@, bigram_key, to_chord),
                              !.bigram_totals = ODInc(@, bigram_key)]
              ELSE a1
        trigram_key == Join(<<chord_list[i - 2], chord_list[i - 1], from_chord>>)
    IN IF i - 1 >= 2
       THEN [a2 EXCEPT !.trigram_counts = ODInc2(@, trigram_key, to_chord),
                       !.trigram_totals = ODInc(@, trigram_key)]
       ELSE a2

\* (the test of total_chords, always true, makes TLC evaluate acc at every round)
RECURSIVE CountPositions(_, _, _)
CountPositions(acc, chord_list, i) ==
    IF acc.total_chords >= 0 /\ i > Len(chord_list) - 1 THEN acc
    ELSE CountPositions(CountPosition(acc, chord_list, i), chord_list, i + 1)

\* mutant: the last chord of a progression is not counted
CountChordList_no_last(acc, chord_list) ==
    IF Len(chord_list) < 2 THEN acc ELSE CountPositions(acc, chord_list, 1)

\* the body of the loop over a genre's progressions
CountChordList(acc, chord_list) ==
    IF Len(chord_list) < 2 THEN acc
    ELSE LET a == CountPositions(acc, chord_list, 1)
         IN [a EXCEPT !.chord_counts = ODInc(@, chord_list[Len(chord_list)]),
                      !.total_chords = @ + 1]

RECURSIVE CountGenre(_, _, _)
CountGenre(acc, rows, r) ==
    IF acc.total_chords >= 0 /\ r > Len(rows) THEN acc
    ELSE CountGenre(CountChordList(acc, rows[r].chords), rows, r + 1)

\* mutant: the divisor is off by one
Probability_off_by_one(count, total) == Rat(count, total + 1)

\* probability = count / total
Probability(count, total) == Rat(count, total)

\* order 1: every counted transition is stored
RECURSIVE StoreTransitions(_, _, _, _, _)
StoreTransitions(m, genre, items, totals, i) ==
    IF i > Len(items) THEN m
    ELSE StoreTransitions(
             add_transition(m, items[i].k1, items[i].k2, genre,
                            Probability(items[i].v, ODGet(totals, items[i].k1, 0))),
             genre, items, totals, i + 1)

\* mutant: a context seen exactly the minimum number of times is skipped too
RareContext_inclusive(total, min_count) == total <= min_count

\* if total < min_bigram_count: continue (and the same for trigrams)
RareContext(total, min_count) == total < min_count

\* order 2: contexts seen fewer than min_bigram_count times are skipped
RECURSIVE StoreBigrams(_, _, _, _, _, _)
StoreBigrams(m, genre, items, totals, min_bigram_count, i) ==
    IF i > Len(items) THEN m
    ELSE LET total == ODGet(totals, items[i].k1, 0)
         IN StoreBigrams(
                IF RareContext(total, min_bigram_count) THEN m
                ELSE add_bigram_transition(m, items[i].k1, items[i].k2, genre,
                                           Probability(items[i].v, total)),
                genre, items, totals, min_bigram_count, i + 1)

\* order 3: contexts seen fewer than min_trigram_count times are skipped
RECURSIVE StoreTrigrams(_, _, _, _, _, _)
StoreTrigrams(m, genre, items, totals, min_trigram_count, i) ==
    IF i > Len(items) THEN m
    ELSE LET total == ODGet(totals, items[i].k1, 0)
         IN StoreTrigrams(
                IF RareContext(total, min_trigram_count) THEN m
                ELSE add_trigram_transition(m, items[i].k1, items[i].k2, genre,
                                            Probability(items[i].v, total)),
                genre, items, totals, min_trigram_count, i + 1)

\* frequency = count / total_chords if total_chords > 0 else 0
RECURSIVE StoreFrequencies(_, _, _, _, _)
StoreFrequencies(m, genre, chord_counts, total_chords, i) ==
    IF i > Len(chord_counts) THEN m
    ELSE StoreFrequencies(
             add_chord_frequency(m, chord_counts[i].k, genre,
                 IF total_chords > 0 THEN Rat(chord_counts[i].v, total_chords) ELSE Zero),
             genre, chord_counts, total_chords, i + 1)

\* the body of the loop over the valid genres
BuildGenre(m, frame, genre, min_bigram_count, min_trigram_count) ==
    LET rows == genre_df(frame, genre)
        c == CountGenre(Counters_init, rows, 1)
        m1 == StoreTransitions(m, genre, Flatten(c.transition_counts), c.from_chord_totals, 1)
        m2 == StoreBigrams(m1, genre, Flatten(c.bigram_counts), c.bigram_totals,
                           min_bigram_count, 1)
        m3 == StoreTrigrams(m2, genre, Flatten(c.trigram_counts), c.trigram_totals,
                            min_trigram_count, 1)
        m4 == StoreFrequencies(m3, genre, c.chord_counts, c.total_chords, 1)
    IN [m4 EXCEPT !.genre_totals = ODPut(@, genre, Len(rows))]

RECURSIVE BuildGenres(_, _, _, _, _, _)
BuildGenres(m, frame, genres, min_bigram_count, min_trigram_count, i) ==
    IF i > Len(genres) THEN m
    ELSE BuildGenres(BuildGenre(m, frame, genres[i], min_bigram_count, min_trigram_count),
                     frame, genres, min_bigram_count, min_trigram_count, i + 1)

build_markov_model(frame, min_genre_size, min_bigram_count, min_trigram_count) ==
    BuildGenres(MarkovModel_init, frame, valid_genres(frame, min_genre_size),
                min_bigram_count, min_trigram_count, 1)

(***************************************************************************)
(* MarkovModel queries.                                                    *)
(***************************************************************************)
\* self.genre_totals.get(genre, 1000)
DefaultGenreTotal == 1000

\* mutant: order 2 is tried before order 3
SelectTransitions_bigram_first(m, current_chord, genre, context) ==
    LET n == Len(context)
        trigram_key == Join(<<context[n - 1], context[n], current_chord>>)
        bigram_key == Join(<<context[n], current_chord>>)
        tri == ODGet(m.trigram_transitions, genre, <<>>)
        bi == ODGet(m.bigram_transitions, genre, <<>>)
        uni == ODGet(m.transitions, genre, <<>>)
    IN IF n >= 1 /\ ODHas(m.bigram_transitions, genre) /\ ODHas(bi, bigram_key)
       THEN [found |-> TRUE, transitions |-> ODGet(bi, bigram_key, <<>>),
             from_label |-> bigram_key]
       ELSE IF n >= 2 /\ ODHas(m.trigram_transitions, genre) /\ ODHas(tri, trigram_key)
       THEN [found |-> TRUE, transitions |-> ODGet(tri, trigram_key, <<>>),
             from_label |-> trigram_key]
       ELSE IF ~ODHas(m.transitions, genre) \/ ~ODHas(uni, current_chord)
       THEN [found |-> FALSE, transitions |-> <<>>, from_label |-> current_chord]
       ELSE [found |-> TRUE, transitions |-> ODGet(uni, current_chord, <<>>),
             from_label |-> current_chord]

\* the distribution get_recommendations picks, by backoff from order 3 to
\* order 1: [found, transitions, from_label]
SelectTransitions(m, current_chord, genre, context) ==
    LET n == Len(context)
        trigram_key == Join(<<context[n - 1], context[n], current_chord>>)
        bigram_key == Join(<<context[n], current_chord>>)
        tri == ODGet(m.trigram_transitions, genre, <<>>)
        bi == ODGet(m.bigram_transitions, genre, <<>>)
        uni == ODGet(m.transitions, genre, <<>>)
    IN IF n >= 2 /\ ODHas(m.trigram_transitions, genre) /\ ODHas(tri, trigram_key)
       THEN [found |-> TRUE, transitions |-> ODGet(tri, trigram_key, <<>>),
             from_label |-> trigram_key]
       ELSE IF n >= 1 /\ ODHas(m.bigram_transitions, genre) /\ ODHas(bi, bigram_key)
       THEN [found |-> TRUE, transitions |-> ODGet(bi, bigram_key, <<>>),
             from_label |-> bigram_key]
       ELSE IF ~ODHas(m.transitions, genre) \/ ~ODHas(uni, current_chord)
       THEN [found |-> FALSE, transitions |-> <<>>, from_label |-> current_chord]
       ELSE [found |-> TRUE, transitions |-> ODGet(uni, current_chord, <<>>),
             from_label |-> current_chord]

\* mutant: the count is rounded up
EstimatedCount_ceiling(m, genre, prob) ==
    LET x == RatMulInt(prob, ODGet(m.genre_totals, genre, DefaultGenreTotal))
    IN IF x[2] = 1 THEN x[1] ELSE IntTrunc(x) + 1

\* estimated_count = int(prob * self.genre_totals.get(genre, 1000))
EstimatedCount(m, genre, prob) ==
    IntTrunc(RatMulInt(prob, ODGet(m.genre_totals, genre, DefaultGenreTotal)))

\* the loop that filters the distribution into TransitionStats
FilterTransitions(m, transitions, from_label, genre, min_probability) ==
    LET kept == SelectSeq(transitions, LAMBDA e : RatLe(min_probability, e.v))
    IN [i \in 1..Len(kept) |->
           [from_chord |-> from_label, to_chord |-> kept[i].k,
            count |-> EstimatedCount(m, genre, kept[i].v),
            probability |-> kept[i].v, genre |-> genre]]

\* mutant: the results are left in the table's order
SortResults_unsorted(results) == results

\* results.sort(key=lambda x: x.probability, reverse=True)
SortResults(results) ==
    SortedDesc(results, [i \in 1..Len(results) |-> results[i].probability])

\* results[:top_n], for top_n >= 0
Truncate(results, top_n) ==
    SubSeq(results, 1, IF top_n < Len(results) THEN top_n ELSE Len(results))

get_recommendations(m, current_chord, genre, top_n, min_probability, context) ==
    LET sel == SelectTransitions(m, current_chord, genre, context)
    IN IF ~sel.found THEN <<>>
       ELSE Truncate(SortResults(FilterTransitions(m, sel.transitions, sel.from_label,
                                                   genre, min_probability)),
                     top_n)

get_chord_frequency(m, chord, genre) ==
    IF ~ODHas(m.chord_frequencies, genre) THEN Zero
    ELSE ODGet(ODGet(m.chord_frequencies, genre, <<>>), chord, Zero)

\* mutant: the scaled frequency is not capped at 1
get_friction_score_uncapped(m, chord, genre) ==
    LET freq == get_chord_frequency(m, chord, genre)
    IN IF freq = Zero THEN One ELSE RatSub(One, RatMulInt(freq, 10))

get_friction_score(m, chord, genre) ==
    LET freq == get_chord_frequency(m, chord, genre)
    IN IF freq = Zero THEN One ELSE RatSub(One, RatMin(RatMulInt(freq, 10), One))

get_available_genres(m) == [i \in 1..Len(m.transitions) |-> m.transitions[i].k]

(***************************************************************************)
(* What a query leaves in the tables.  The tables are defaultdicts: a      *)
(* subscript d[key] creates a missing key with the default value, a test   *)
(* key in d and d.get(key, default) create nothing.                        *)
(***************************************************************************)
\* the defaultdict d after d[key] was evaluated
Subscript(d, key, default) ==
    IF ODHas(d, key) THEN d ELSE Append(d, [k |-> key, v |-> default])

\* a table genre -> key -> distribution after table[genre][key] was evaluated
Subscript2(table, genre, key) ==
    LET created == Subscript(table, genre, <<>>)
    IN ODPut(created, genre, Subscript(ODGet(created, genre, <<>>), key, <<>>))

\* mutant: the order-1 table is subscripted without the tests of lines 153-154
get_recommendations_self_unguarded(m, current_chord, genre, context) ==
    LET n == Len(context)
        tri == ODGet(m.trigram_transitions, genre, <<>>)
        bi == ODGet(m.bigram_transitions, genre, <<>>)
        order3 == /\ n >= 2
                  /\ ODHas(m.trigram_transitions, genre)
                  /\ ODHas(tri, Join(<<context[n - 1], context[n], current_chord>>))
        order2 == /\ ~order3
                  /\ n >= 1
                  /\ ODHas(m.bigram_transitions, genre)
                  /\ ODHas(bi, Join(<<context[n], current_chord>>))
    IN [m EXCEPT
          !.trigram_transitions =
              IF order3
              THEN Subscript2(@, genre, Join(<<context[n - 1], context[n], current_chord>>))
              ELSE @,
          !.bigram_transitions =
              IF order2 THEN Subscript2(@, genre, Join(<<context[n], current_chord>>)) ELSE @,
          !.transitions =
              IF ~order3 /\ ~order2 THEN Subscript2(@, genre, current_chord) ELSE @]

\* the model after get_recommendations: a table is subscripted only under
\* the tests genre in table and key in table[genre]
get_recommendations_self(m, current_chord, genre, context) ==
    LET n == Len(context)
        tri == ODGet(m.trigram_transitions, genre, <<>>)
        bi == ODGet(m.bigram_transitions, genre, <<>>)
        uni == ODGet(m.transitions, genre, <<>>)
        order3 == /\ n >= 2
                  /\ ODHas(m.trigram_transitions, genre)
                  /\ ODHas(tri, Join(<<context[n - 1], context[n], current_chord>>))
        order2 == /\ ~order3
                  /\ n >= 1
                  /\ ODHas(m.bigram_transitions, genre)
                  /\ ODHas(bi, Join(<<context[n], current_chord>>))
        order1 == /\ ~order3
                  /\ ~order2
                  /\ ODHas(m.transitions, genre)
                  /\ ODHas(uni, current_chord)
    IN [m EXCEPT
          !.trigram_transitions =
              IF order3
              THEN Subscript2(@, genre, Join(<<context[n - 1], context[n], current_chord>>))
              ELSE @,
          !.bigram_transitions =
              IF order2 THEN Subscript2(@, genre, Join(<<context[n], current_chord>>)) ELSE @,
          !.transitions = IF order1 THEN Subscript2(@, genre, current_chord) ELSE @]

\* the model after get_chord_frequency (and get_friction_score, which calls
\* it): chord_frequencies[genre] is read when the genre is a key
get_chord_frequency_self(m, chord, genre) ==
    IF ~ODHas(m.chord_frequencies, genre) THEN m
    ELSE [m EXCEPT !.chord_frequencies = Subscript(@, genre, <<>>)]

(***************************************************************************)
(* MarkovModel.to_dict and MarkovModel.from_dict.                          *)
(***************************************************************************)
\* defaults of to_dict
DefaultMaxPerContext == 15

DefaultProbabilityPrecision == 4

\* min_export_probability = 0.005
DefaultMinExportProbability == <<1, 200>>

\* one context of _prune_transitions: the next chords of probability at
\* least min_export_probability, their probabilities rounded; with prune, the
\* max_per_context first of them by rounded probability
PruneContext(to_chords, prune, max_per_context, probability_precision, min_export_probability) ==
    LET passing == SelectSeq(to_chords, LAMBDA e : RatLe(min_export_probability, e.v))
        filtered == [i \in 1..Len(passing) |->
                        [k |-> passing[i].k, v |-> PyRound(passing[i].v, probability_precision)]]
    IN IF prune /\ Len(filtered) > max_per_context
       THEN SubSeq(SortedDesc(filtered, [i \in 1..Len(filtered) |-> filtered[i].v]),
                   1, max_per_context)
       ELSE filtered

\* one genre of _prune_transitions: a context left with no next chord by the
\* probability filter is skipped
PruneGenre(contexts, prune, max_per_context, probability_precision, min_export_probability) ==
    LET passes(e) == \E i \in 1..Len(e.v) : RatLe(min_export_probability, e.v[i].v)
        kept == SelectSeq(contexts, passes)
    IN [i \in 1..Len(kept) |->
           [k |-> kept[i].k,
            v |-> PruneContext(kept[i].v, prune, max_per_context, probability_precision,
                               min_export_probability)]]

prune_transitions(trans, prune, max_per_context, probability_precision, min_export_probability) ==
    [g \in 1..Len(trans) |->
        [k |-> trans[g].k,
         v |-> PruneGenre(trans[g].v, prune, max_per_context, probability_precision,
                          min_export_probability)]]

to_dict(m, max_per_context, probability_precision, min_export_probability) ==
    [ transitions |-> prune_transitions(m.transitions, FALSE, max_per_context,
                                        probability_precision, min_export_probability),
      bigram_transitions |-> prune_transitions(m.bigram_transitions, TRUE, max_per_context,
                                               probability_precision, min_export_probability),
      trigram_transitions |-> prune_transitions(m.trigram_transitions, TRUE, max_per_context,
                                                probability_precision, min_export_probability),
      chord_frequencies |-> m.chord_frequencies,
      genre_totals |-> m.genre_totals ]

\* the (genre, k1, k2, value) items of a three-level dict, in iteration order
RECURSIVE Flatten3(_)
Flatten3(table) ==
    IF table = <<>> THEN <<>>
    ELSE LET items == Flatten(table[1].v)
         IN [i \in 1..Len(items) |->
                [genre |-> table[1].k, k1 |-> items[i].k1, k2 |-> items[i].k2,
                 v |-> items[i].v]]
            \o Flatten3(Tail(table))

\* the three loops of from_dict that call add_transition,
\* add_bigram_transition and add_trigram_transition
RECURSIVE Reconstruct(_, _, _, _)
Reconstruct(m, order, items, i) ==
    IF i > Len(items) THEN m
    ELSE LET it == items[i]
         IN Reconstruct(
                CASE order = 1 -> add_transition(m, it.k1, it.k2, it.genre, it.v)
                  [] order = 2 -> add_bigram_transition(m, it.k1, it.k2, it.genre, it.v)
                  [] order = 3 -> add_trigram_transition(m, it.k1, it.k2, it.genre, it.v),
                order, items, i + 1)

\* the loop of from_dict that calls add_chord_frequency
RECURSIVE ReconstructFrequencies(_, _, _)
ReconstructFrequencies(m, items, i) ==
    IF i > Len(items) THEN m
    ELSE ReconstructFrequencies(
             add_chord_frequency(m, items[i].k2, items[i].k1, items[i].v), items, i + 1)

from_dict(d) ==
    LET m1 == Reconstruct(MarkovModel_init, 1, Flatten3(d.transitions), 1)
        m2 == Reconstruct(m1, 2, Flatten3(d.bigram_transitions), 1)
        m3 == Reconstruct(m2, 3, Flatten3(d.trigram_transitions), 1)
        m4 == ReconstructFrequencies(m3, Flatten(d.chord_frequencies), 1)
    IN [m4 EXCEPT !.genre_totals = d.genre_totals]

(***************************************************************************)
(* Training: the DataFrame is filled row by row, then build_markov_model   *)
(* runs once over all of it.                                               *)
(***************************************************************************)
\* defaults of build_markov_model
DefaultMinBigramCount == 3

DefaultMinTrigramCount == 2

MinGenreSizes == {1, 2}

MinBigramCounts == {1, DefaultMinBigramCount}

MinTrigramCounts == {1, DefaultMinTrigramCount}

NotBuilt == [built |-> FALSE]

Idle == [op |-> "idle"]

NoData == [exported |-> FALSE]

NoModel == [loaded |-> FALSE]

\* Python's None
None == [none |-> TRUE]

NotExtracted == [extracted |-> FALSE]

\* the model directory before build_models.py has run
EmptyDir == [markov |-> None, patterns |-> None]

\* ChordRecommender.__init__; reads counts the reads of markov_model.json
ChordRecommender_init == [markov |-> None, patterns |-> None, loaded |-> FALSE, reads |-> 0]

\* the concurrent callers
NumCallers == 2

Callers == 1..NumCallers

\* a caller that has not called the recommender yet
Outside == [pc |-> "idle", called |-> FALSE, observed |-> FALSE, reads |-> 0]

Init ==
    /\ df = <<>>
    /\ model = MarkovModel_init
    /\ build_args = NotBuilt
    /\ call = Idle
    /\ data = NoData
    /\ restored = NoModel
    /\ miner = NotExtracted
    /\ disk = EmptyDir
    /\ recommender = ChordRecommender_init
    /\ callers = [t \in Callers |-> Outside]
    /\ _recommender = None

AddRow(row) ==
    /\ ~build_args.built
    /\ Len(df) < MaxRows
    /\ df' = Append(df, row)
    /\ UNCHANGED <<callers, _recommender, miner, disk, recommender, model, build_args, call, data, restored>>

Build(min_genre_size, min_bigram_count, min_trigram_count) ==
    /\ ~build_args.built
    /\ call = Idle
    /\ ~data.exported
    /\ model' = build_markov_model(df, min_genre_size, min_bigram_count, min_trigram_count)
    /\ build_args' = [built |-> TRUE, min_genre_size |-> min_genre_size,
                      min_bigram_count |-> min_bigram_count,
                      min_trigram_count |-> min_trigram_count]
    /\ UNCHANGED <<callers, _recommender, miner, disk, recommender, df, call, data, restored>>

Next ==
    \/ \E row \in Rows : AddRow(row)
    \/ \E s \in MinGenreSizes, b \in MinBigramCounts, t \in MinTrigramCounts : Build(s, b, t)

Spec == Init /\ [][Next]_vars

(***************************************************************************)
(* Querying: a whole dataset is loaded and trained on, then a caller asks  *)
(* the model for recommendations and friction scores, one call at a time.  *)
(***************************************************************************)
Row(genre, chords) == [genre |-> genre, chords |-> chords]

ScenarioData ==
    << Row("pop", <<"C", "G", "Am", "F">>), Row("pop", <<"C", "G", "C">>),
       Row("pop", <<"C", "F", "C">>) >>

Datasets ==
    { ScenarioData,
      ScenarioData \o << Row("pop", <<"C", "Am", "C">>), Row("rock", <<"F", "C", "F">>),
                         Row("rock", <<"C">>) >>,
      << Row("pop", <<"C", "G", "Am", "F">>), Row("rock", <<"C", "G", "C">>),
         Row("pop", <<"C", "G", "Am", "F">>), Row("pop", <<"G", "C", "G", "Am", "F">>),
         Row("pop", <<"C", "G", "Dm">>), Row("pop", <<"C", "G", "Am", "F", "E", "E">>) >>,
      << Row("pop", <<"C", "G", "Am">>), Row("pop", <<"C", "G", "C">>),
         Row("pop", <<"C", "G", "C">>), Row("pop", <<"C", "G", "F">>) >> }

QueryChords == Chords \cup {"Bdim"}

QueryGenres == Genres \cup {"jazz"}

ContextChords == {"C", "G", "Am"}

Contexts == UNION {[1..n -> ContextChords] : n \in 0..MaxContext}

\* min_probability: the default 0.001, and 0.5
MinProbabilities == {<<1, 1000>>, <<1, 2>>}

LoadDataset(d) ==
    /\ df = <<>>
    /\ ~build_args.built
    /\ ~miner.extracted
    /\ call = Idle
    /\ df' = d
    /\ UNCHANGED <<callers, _recommender, miner, disk, recommender, model, build_args, call, data, restored>>

GetRecommendations(current_chord, genre, top_n, min_probability, context) ==
    /\ call = Idle
    /\ call' = [op |-> "get_recommendations", current_chord |-> current_chord,
                genre |-> genre, top_n |-> top_n, min_probability |-> min_probability,
                context |-> context,
                result |-> get_recommendations(model, current_chord, genre, top_n,
                                               min_probability, context)]
    /\ model' = get_recommendations_self(model, current_chord, genre, context)
    /\ UNCHANGED <<callers, _recommender, miner, disk, recommender, df, build_args, data, restored>>

GetFrictionScore(chord, genre) ==
    /\ call = Idle
    /\ call' = [op |-> "get_friction_score", chord |-> chord, genre |-> genre,
                result |-> get_friction_score(model, chord, genre)]
    /\ model' = get_chord_frequency_self(model, chord, genre)
    /\ UNCHANGED <<callers, _recommender, miner, disk, recommender, df, build_args, data, restored>>

Return ==
    /\ call # Idle
    /\ call' = Idle
    /\ UNCHANGED <<callers, _recommender, miner, disk, recommender, df, model, build_args, data, restored>>

NextQuery ==
    \/ \E d \in Datasets : LoadDataset(d)
    \/ \E s \in MinGenreSizes, b \in MinBigramCounts, t \in MinTrigramCounts : Build(s, b, t)
    \/ \E c \in QueryChords, g \in QueryGenres, n \in 0..MaxTopN,
          p \in MinProbabilities, ctx \in Contexts : GetRecommendations(c, g, n, p, ctx)
    \/ \E c \in QueryChords, g \in QueryGenres : GetFrictionScore(c, g)
    \/ Return

SpecQuery == Init /\ [][NextQuery]_vars

(***************************************************************************)
(* Saving and loading: the trained model is exported with to_dict and a    *)
(* new model is made of the dictionary with from_dict.                     *)
(***************************************************************************)
MaxPerContexts == {1, 2, DefaultMaxPerContext}

ProbabilityPrecisions == {0, DefaultProbabilityPrecision}

\* min_export_probability: the default 0.005, and 0.3
MinExportProbabilities == {DefaultMinExportProbability, <<3, 10>>}

ToDict(max_per_context, probability_precision, min_export_probability) ==
    /\ call = Idle
    /\ ~data.exported
    /\ data' = [exported |-> TRUE, max_per_context |-> max_per_context,
                probability_precision |-> probability_precision,
                min_export_probability |-> min_export_probability,
                dict |-> to_dict(model, max_per_context, probability_precision,
                                 min_export_probability)]
    /\ UNCHANGED <<callers, _recommender, miner, disk, recommender, df, model, build_args, call, restored>>

FromDict ==
    /\ data.exported
    /\ ~restored.loaded
    /\ restored' = [loaded |-> TRUE, model |-> from_dict(data.dict)]
    /\ UNCHANGED <<callers, _recommender, miner, disk, recommender, df, model, build_args, call, data>>

NextExport ==
    \/ \E d \in Datasets : LoadDataset(d)
    \/ \E s \in MinGenreSizes, b \in MinBigramCounts, t \in MinTrigramCounts : Build(s, b, t)
    \/ \E n \in MaxPerContexts, k \in ProbabilityPrecisions, p \in MinExportProbabilities :
           ToDict(n, k, p)
    \/ FromDict

SpecExport == Init /\ [][NextExport]_vars

(***************************************************************************)
(* What the training data holds, counted directly on the DataFrame.        *)
(***************************************************************************)
Built == build_args.built

Table(name) ==
    CASE name = "transitions" -> model.transitions
      [] name = "bigram_transitions" -> model.bigram_transitions
      [] name = "trigram_transitions" -> model.trigram_transitions

TableNames == {"transitions", "bigram_transitions", "trigram_transitions"}

\* the number of rows of a genre
ProgressionCount(genre) == Cardinality({i \in 1..Len(df) : df[i].genre = genre})

\* the occurrences of a chord in the rows of a genre that hold at least
\* min_len chords
RECURSIVE Occurrences(_, _, _, _)
Occurrences(genre, chord, min_len, r) ==
    IF r > Len(df) THEN 0
    ELSE (IF df[r].genre = genre /\ Len(df[r].chords) >= min_len
          THEN Cardinality({i \in 1..Len(df[r].chords) : df[r].chords[i] = chord})
          ELSE 0)
         + Occurrences(genre, chord, min_len, r + 1)

\* all chord occurrences in the rows of a genre that hold at least min_len chords
RECURSIVE TotalOccurrences(_, _, _)
TotalOccurrences(genre, min_len, r) ==
    IF r > Len(df) THEN 0
    ELSE (IF df[r].genre = genre /\ Len(df[r].chords) >= min_len
          THEN Len(df[r].chords) ELSE 0)
         + TotalOccurrences(genre, min_len, r + 1)

RECURSIVE SumValues(_)
SumValues(d) == IF d = <<>> THEN Zero ELSE RatAdd(d[1].v, SumValues(Tail(d)))

RetainedGenres == {g \in Genres : ProgressionCount(g) >= build_args.min_genre_size}

\* the distributions of one table: every (genre, context) entry
Distributions(table) ==
    UNION {{table[i].v[j].v : j \in 1..Len(table[i].v)} : i \in 1..Len(table)}

(***************************************************************************)
(* C4: in a model produced by build_markov_model the outgoing              *)
(* probabilities of every order-1 source chord sum to 1, those of every    *)
(* retained order-2 and order-3 context sum to at most 1, and every stored *)
(* probability lies in [0, 1].                                             *)
(***************************************************************************)
C4_ProbabilityMass ==
    Built =>
        /\ \A dist \in Distributions(model.transitions) : SumValues(dist) = One
        /\ \A dist \in Distributions(model.bigram_transitions)
                       \cup Distributions(model.trigram_transitions) :
               RatLe(SumValues(dist), One)
        /\ \A name \in TableNames : \A dist \in Distributions(Table(name)) :
               \A i \in 1..Len(dist) : RatLe(Zero, dist[i].v) /\ RatLe(dist[i].v, One)

C4_Witness ==
    /\ Built
    /\ \E dist \in Distributions(model.transitions) : Len(dist) >= 2
    /\ \E dist \in Distributions(model.bigram_transitions) : Len(dist) >= 2
    /\ model.trigram_transitions # <<>>

(***************************************************************************)
(* C5: the documented training scenario, three "pop" progressions          *)
(* [C,G,Am,F], [C,G,C], [C,F,C] with min_genre_size = 1.                    *)
(***************************************************************************)
Scenario4 ==
    /\ Built
    /\ build_args.min_genre_size = 1
    /\ df = << [genre |-> "pop", chords |-> <<"C", "G", "Am", "F">>],
               [genre |-> "pop", chords |-> <<"C", "G", "C">>],
               [genre |-> "pop", chords |-> <<"C", "F", "C">>] >>

Order1(genre, from_chord, to_chord) ==
    ODGet(ODGet(ODGet(model.transitions, genre, <<>>), from_chord, <<>>), to_chord, Zero)

\* the transitions counted out of a chord: from_chord_totals[chord]
SourceTotal(genre, chord) ==
    ODGet(CountGenre(Counters_init, genre_df(df, genre), 1).from_chord_totals, chord, 0)

\* C5 as stated: chord C is the source of 4 transitions, C->G has probability
\* 2/4 and C->F has probability 1/4
C5_AsStated ==
    Scenario4 =>
        /\ SourceTotal("pop", "C") = 4
        /\ Order1("pop", "C", "G") = Rat(2, 4)
        /\ Order1("pop", "C", "F") = Rat(1, 4)

\* C5 amended: chord C is the source of 3 transitions (one per progression),
\* C->G has probability 2/3 and C->F has probability 1/3
C5_Scenario ==
    Scenario4 =>
        /\ SourceTotal("pop", "C") = 3
        /\ Order1("pop", "C", "G") = Rat(2, 3)
        /\ Order1("pop", "C", "F") = Rat(1, 3)

C5_Witness == Scenario4

(***************************************************************************)
(* C6: chord frequencies.                                                  *)
(***************************************************************************)
Frequency(genre, chord) ==
    ODGet(ODGet(model.chord_frequencies, genre, <<>>), chord, Zero)

\* chord_frequencies[genre] is the share of each chord among the chord
\* occurrences of the genre's progressions of at least min_len chords
FrequenciesCount(min_len) ==
    Built =>
        \A g \in RetainedGenres :
            LET total == TotalOccurrences(g, min_len, 1)
                freq == ODGet(model.chord_frequencies, g, <<>>)
            IN /\ \A c \in Chords :
                      /\ ODHas(freq, c) <=> Occurrences(g, c, min_len, 1) > 0
                      /\ ODHas(freq, c) =>
                             ODGet(freq, c, Zero) = Rat(Occurrences(g, c, min_len, 1), total)
               /\ total > 0 => SumValues(freq) = One
               /\ ODHas(model.chord_frequencies, g) <=> total > 0

\* C6 as stated: every chord occurrence of every progression of a retained
\* genre counts toward the frequency, whatever the progression's length
C6_AsStated == FrequenciesCount(0)

\* C6 amended: every chord occurrence, the last chord included, of every
\* progression of at least 2 chords counts toward the frequency; a shorter
\* progression is skipped and counts nothing; the frequencies of a genre that
\* has a counted progression sum to 1
C6_Frequencies == FrequenciesCount(2)

C6_Witness ==
    /\ Built
    /\ \E g \in RetainedGenres :
           /\ \E i \in 1..Len(df) : df[i].genre = g /\ Len(df[i].chords) < 2
           /\ \E i \in 1..Len(df) : df[i].genre = g /\ Len(df[i].chords) >= 2
           /\ Len(ODGet(model.chord_frequencies, g, <<>>)) >= 2

(***************************************************************************)
(* C7: genre_totals holds exactly the genres of at least min_genre_size    *)
(* progressions, each with its number of progressions (short ones          *)
(* included), and no table holds a key of a smaller genre.                 *)
(***************************************************************************)
C7_GenreTotals ==
    Built =>
        /\ ODKeys(model.genre_totals) = RetainedGenres
        /\ \A g \in RetainedGenres : ODGet(model.genre_totals, g, 0) = ProgressionCount(g)
        /\ \A name \in TableNames : ODKeys(Table(name)) \subseteq RetainedGenres
        /\ ODKeys(model.chord_frequencies) \subseteq RetainedGenres

C7_Witness ==
    /\ Built
    /\ \E g \in Genres : ProgressionCount(g) > 0 /\ g \notin RetainedGenres
    /\ \E g \in RetainedGenres :
           /\ ProgressionCount(g) = build_args.min_genre_size
           /\ \E i \in 1..Len(df) : df[i].genre = g /\ Len(df[i].chords) < 2
           /\ ODHas(model.transitions, g)

(***************************************************************************)
(* What a get_recommendations call should have looked at, read off the     *)
(* tables of the model.                                                    *)
(***************************************************************************)
IsRecommendations == call.op = "get_recommendations"

IsFriction == call.op = "get_friction_score"

HasEntry(table, genre, key) == ODHas(table, genre) /\ ODHas(ODGet(table, genre, <<>>), key)

Entry(table, genre, key) == ODGet(ODGet(table, genre, <<>>), key, <<>>)

\* context[-2]|context[-1]|chord
Key3 == LET n == Len(call.context)
        IN call.context[n - 1] \o "|" \o call.context[n] \o "|" \o call.current_chord

\* context[-1]|chord
Key2 == call.context[Len(call.context)] \o "|" \o call.current_chord

\* the order the backoff policy picks for the call: 3, 2, 1, or 0 when the
\* chord has no entry at all
ChosenOrder ==
    IF Len(call.context) >= 2 /\ HasEntry(model.trigram_transitions, call.genre, Key3) THEN 3
    ELSE IF Len(call.context) >= 1 /\ HasEntry(model.bigram_transitions, call.genre, Key2)
    THEN 2
    ELSE IF HasEntry(model.transitions, call.genre, call.current_chord) THEN 1
    ELSE 0

ChosenLabel ==
    CASE ChosenOrder = 3 -> Key3
      [] ChosenOrder = 2 -> Key2
      [] OTHER -> call.current_chord

ChosenDistribution ==
    CASE ChosenOrder = 3 -> Entry(model.trigram_transitions, call.genre, Key3)
      [] ChosenOrder = 2 -> Entry(model.bigram_transitions, call.genre, Key2)
      [] ChosenOrder = 1 -> Entry(model.transitions, call.genre, call.current_chord)
      [] OTHER -> <<>>

\* the entries of the chosen distribution that pass min_probability
Qualifying ==
    {i \in 1..Len(ChosenDistribution) :
        RatLe(call.min_probability, ChosenDistribution[i].v)}

\* the genre holds no order-2 and no order-3 context that ends in the chord
OnlyOrder1(genre, chord) ==
    \A a \in Chords, b \in Chords :
        /\ ~HasEntry(model.bigram_transitions, genre, a \o "|" \o chord)
        /\ ~HasEntry(model.trigram_transitions, genre, a \o "|" \o b \o "|" \o chord)

(***************************************************************************)
(* C1: get_recommendations draws its results from exactly one table,       *)
(* chosen by backoff: the order-3 entry context[-2]|context[-1]|chord when *)
(* the context has 2 chords or more and the key exists, otherwise the      *)
(* order-2 entry context[-1]|chord when the context has a chord and the    *)
(* key exists, otherwise the order-1 entry of the chord; the result is     *)
(* empty when that is absent too.  A genre with only order-1 data for the  *)
(* chord answers a query with a context as it answers one without.         *)
(***************************************************************************)
C1_Backoff ==
    IsRecommendations =>
        /\ \A i \in 1..Len(call.result) :
               /\ call.result[i].from_chord = ChosenLabel
               /\ ODHas(ChosenDistribution, call.result[i].to_chord)
               /\ ODGet(ChosenDistribution, call.result[i].to_chord, Zero)
                      = call.result[i].probability
        /\ ChosenOrder = 0 => call.result = <<>>
        /\ (call.top_n >= 1 /\ Qualifying # {}) => call.result # <<>>
        /\ (HasEntry(model.transitions, call.genre, call.current_chord)
               /\ OnlyOrder1(call.genre, call.current_chord))
           => call.result = get_recommendations(model, call.current_chord, call.genre,
                                                call.top_n, call.min_probability, <<>>)

\* a call with two context chords, on a model that holds order-3 data, whose
\* order-3 key is absent and whose order-2 key exists, on a chord that has a
\* different order-1 entry
C1_Witness ==
    /\ IsRecommendations
    /\ Len(call.context) >= 2
    /\ ChosenOrder = 2
    /\ call.result # <<>>
    /\ model.trigram_transitions # <<>>
    /\ Entry(model.transitions, call.genre, call.current_chord) # ChosenDistribution

(***************************************************************************)
(* C8: a result holds at most top_n entries, all from the chosen           *)
(* distribution and of probability >= min_probability, in non-increasing   *)
(* order of probability with equal probabilities in the table's insertion  *)
(* order, and no left-out qualifying entry is more probable than a         *)
(* returned one.                                                           *)
(***************************************************************************)
C8_Ranking ==
    IsRecommendations =>
        LET r == call.result
            dist == ChosenDistribution
            returned == {r[i].to_chord : i \in 1..Len(r)}
        IN /\ Len(r) <= call.top_n
           /\ Len(r) = IF Cardinality(Qualifying) < call.top_n
                       THEN Cardinality(Qualifying) ELSE call.top_n
           /\ \A i \in 1..Len(r) :
                  /\ ODHas(dist, r[i].to_chord)
                  /\ ODGet(dist, r[i].to_chord, Zero) = r[i].probability
                  /\ RatLe(call.min_probability, r[i].probability)
           /\ \A i \in 1..Len(r), j \in 1..Len(r) :
                  i < j =>
                      /\ RatLe(r[j].probability, r[i].probability)
                      /\ r[i].probability = r[j].probability
                             => ODIdx(dist, r[i].to_chord) < ODIdx(dist, r[j].to_chord)
           /\ \A q \in Qualifying :
                  dist[q].k \notin returned
                      => \A i \in 1..Len(r) : RatLe(dist[q].v, r[i].probability)

\* a result the sort has reordered, cut by top_n between two entries of
\* equal probability, while min_probability has filtered nothing or something
C8_Witness ==
    /\ IsRecommendations
    /\ Len(call.result) >= 2
    /\ \E i \in 1..Len(call.result), j \in 1..Len(call.result) :
           /\ i < j
           /\ ODIdx(ChosenDistribution, call.result[i].to_chord)
                  > ODIdx(ChosenDistribution, call.result[j].to_chord)
    /\ \E q \in Qualifying :
           /\ ChosenDistribution[q].k \notin {call.result[i].to_chord : i \in 1..Len(call.result)}
           /\ ChosenDistribution[q].v = call.result[Len(call.result)].probability

(***************************************************************************)
(* C9: the count of a result.                                              *)
(***************************************************************************)
GenreTotal == ODGet(model.genre_totals, call.genre, 0)

\* C9 as stated: count is probability x genre_totals[genre] rounded to the
\* nearest integer (it differs from the product by at most 1/2)
C9_AsStated ==
    IsRecommendations =>
        \A i \in 1..Len(call.result) :
            LET p == call.result[i].probability
                diff == call.result[i].count * p[2] - p[1] * GenreTotal
            IN /\ ODHas(model.genre_totals, call.genre)
               /\ 2 * (IF diff < 0 THEN -diff ELSE diff) <= p[2]

\* C9 amended: count is int(probability x genre_totals[genre]), the product
\* truncated toward zero: count <= product < count + 1
C9_Truncated ==
    IsRecommendations =>
        \A i \in 1..Len(call.result) :
            LET p == call.result[i].probability
            IN /\ ODHas(model.genre_totals, call.genre)
               /\ call.result[i].count * p[2] <= p[1] * GenreTotal
               /\ p[1] * GenreTotal < (call.result[i].count + 1) * p[2]

\* a result whose product is no integer, and lies above the half
C9_Witness ==
    /\ IsRecommendations
    /\ \E i \in 1..Len(call.result) :
           LET p == call.result[i].probability
           IN 2 * ((p[1] * GenreTotal) % p[2]) > p[2]

(***************************************************************************)
(* C10: get_friction_score is 1 for a chord of frequency 0 (an unknown     *)
(* chord or genre included) and max(0, 1 - min(10 * frequency, 1))         *)
(* otherwise; it lies in [0, 1] and a more frequent chord of the genre has *)
(* no more friction.                                                       *)
(***************************************************************************)
FrictionOf(frequency) ==
    LET scaled == RatMulInt(frequency, 10)
        capped == IF RatLe(scaled, One) THEN scaled ELSE One
        diff == RatSub(One, capped)
    IN IF frequency = Zero THEN One
       ELSE IF RatLe(Zero, diff) THEN diff ELSE Zero

C10_Friction ==
    IsFriction =>
        /\ call.result = FrictionOf(Frequency(call.genre, call.chord))
        /\ RatLe(Zero, call.result) /\ RatLe(call.result, One)
        /\ \A c2 \in QueryChords :
               RatLt(Frequency(call.genre, call.chord), Frequency(call.genre, c2))
                   => RatLe(get_friction_score(model, c2, call.genre), call.result)

\* a chord whose friction is strictly between 0 and 1, in a genre that has a
\* more frequent chord of strictly less friction and a chord of friction 0
C10_Witness ==
    /\ IsFriction
    /\ RatLt(Zero, call.result) /\ RatLt(call.result, One)
    /\ \E c2 \in QueryChords :
           /\ RatLt(Frequency(call.genre, call.chord), Frequency(call.genre, c2))
           /\ RatLt(Zero, get_friction_score(model, c2, call.genre))
           /\ RatLt(get_friction_score(model, c2, call.genre), call.result)
    /\ \E c3 \in QueryChords : get_friction_score(model, c3, call.genre) = Zero

(***************************************************************************)
(* C2: the round trip from_dict(model.to_dict()) of a built model keeps    *)
(* the order-1 table: the same (genre, from_chord, to_chord) entries, each *)
(* with its probability unchanged.                                         *)
(***************************************************************************)
\* the (genre, key, to_chord, probability) entries of a table
Entries(table) ==
    LET items == Flatten3(table)
    IN {<<items[i].genre, items[i].k1, items[i].k2, items[i].v>> : i \in 1..Len(items)}

DefaultExport ==
    /\ data.exported
    /\ data.max_per_context = DefaultMaxPerContext
    /\ data.probability_precision = DefaultProbabilityPrecision
    /\ data.min_export_probability = DefaultMinExportProbability

C2_RoundTrip ==
    (Built /\ DefaultExport /\ restored.loaded)
        => Entries(restored.model.transitions) = Entries(model.transitions)

(***************************************************************************)
(* C3: in the dictionary of to_dict every order-2 and order-3 context      *)
(* holds at most max_per_context next chords, each an entry of the         *)
(* in-memory table of probability >= min_export_probability, and when more *)
(* next chords qualify than max_per_context no left-out qualifying next    *)
(* chord is more probable than a kept one.                                 *)
(***************************************************************************)
\* the probability the next chords of a context are ranked by: as stored, or
\* rounded as the export rounds it
Rank(p, rounded) == IF rounded THEN PyRound(p, data.probability_precision) ELSE p

\* the statement for one exported table
PrunedTop(exported, table, rounded) ==
    \A g \in 1..Len(exported) : \A c \in 1..Len(exported[g].v) :
        LET kept == exported[g].v[c].v
            dist == Entry(table, exported[g].k, exported[g].v[c].k)
            qualifying == {i \in 1..Len(dist) : RatLe(data.min_export_probability, dist[i].v)}
        IN /\ Len(kept) <= data.max_per_context
           /\ \A i \in 1..Len(kept) :
                  /\ ODHas(dist, kept[i].k)
                  /\ RatLe(data.min_export_probability, ODGet(dist, kept[i].k, Zero))
           /\ Cardinality(qualifying) > data.max_per_context =>
                  \A q \in qualifying : \A i \in 1..Len(kept) :
                      ~ODHas(kept, dist[q].k)
                          => RatLe(Rank(dist[q].v, rounded),
                                   Rank(ODGet(dist, kept[i].k, Zero), rounded))

C3_PrunedTop ==
    data.exported =>
        /\ PrunedTop(data.dict.bigram_transitions, model.bigram_transitions, FALSE)
        /\ PrunedTop(data.dict.trigram_transitions, model.trigram_transitions, FALSE)

\* what the export does keep to: no left-out qualifying next chord has a
\* higher rounded probability than a kept one
C3_PrunedTopRounded ==
    data.exported =>
        /\ PrunedTop(data.dict.bigram_transitions, model.bigram_transitions, TRUE)
        /\ PrunedTop(data.dict.trigram_transitions, model.trigram_transitions, TRUE)

(***************************************************************************)
(* chord_normalizer.py.  A chord token is a sequence of one-character      *)
(* strings, so that the code's slicing, prefix tests and regular           *)
(* expression can be computed; the fields of a ChordNotation are strings.  *)
(***************************************************************************)
\* an Optional[str]: None is the empty sequence, a string s is <<s>>
Nothing == <<>>

Some(s) == <<s>>

\* "".join(chars)
RECURSIVE Str(_)
Str(chars) == IF chars = <<>> THEN "" ELSE chars[1] \o Str(Tail(chars))

\* the characters of a text, so that a returned chord can be a token again
Chars(text) == [i \in 1..Len(text) |-> SubSeq(text, i, i)]

\* s[n:]
Drop(s, n) == SubSeq(s, n + 1, Len(s))

\* s[:n]
Take(s, n) == SubSeq(s, 1, IF n < Len(s) THEN n ELSE Len(s))

\* s.startswith(prefix)
startswith(s, prefix) == Len(s) >= Len(prefix) /\ SubSeq(s, 1, Len(prefix)) = prefix

\* sub in s
Contains(s, sub) == \E i \in 0..(Len(s) - Len(sub)) : SubSeq(s, i + 1, i + Len(sub)) = sub

UpperCase == <<"A", "B", "C", "D", "E", "F", "G", "H", "I", "J", "K", "L", "M", "N", "O", "P", "Q", "R", "S", "T", "U", "V", "W", "X", "Y", "Z">>

LowerCase == <<"a", "b", "c", "d", "e", "f", "g", "h", "i", "j", "k", "l", "m", "n", "o", "p", "q", "r", "s", "t", "u", "v", "w", "x", "y", "z">>

\* s.lower()
lower(s) ==
    [i \in 1..Len(s) |->
        IF \E j \in 1..Len(UpperCase) : UpperCase[j] = s[i]
        THEN LowerCase[CHOOSE j \in 1..Len(UpperCase) : UpperCase[j] = s[i]]
        ELSE s[i]]

\* the dataset's sharps, the only keys NOTE_MAPPING does not map to themselves
NOTE_MAPPING ==
    << [k |-> <<"C", "s">>, v |-> "C#"], [k |-> <<"D", "s">>, v |-> "D#"],
       [k |-> <<"F", "s">>, v |-> "F#"], [k |-> <<"G", "s">>, v |-> "G#"],
       [k |-> <<"A", "s">>, v |-> "A#"] >>

\* mutant: no note is mapped, the dataset's sharps are kept as written
normalize_note_unmapped(note) == Str(note)

\* NOTE_MAPPING.get(note, note)
normalize_note(note) == ODGet(NOTE_MAPPING, note, Str(note))

\* the length of the match of ^([A-G][sb]?), 0 when there is no match
RootMatch(chord_str) ==
    IF Len(chord_str) = 0 \/ chord_str[1] \notin {"A", "B", "C", "D", "E", "F", "G"} THEN 0
    ELSE IF Len(chord_str) >= 2 /\ chord_str[2] \in {"s", "b"} THEN 2
    ELSE 1

\* the rules of parse_quality after the power-chord rule, in their order
QualityTable(quality_str) ==
    IF startswith(quality_str, <<"m", "i", "n">>)
    THEN LET rest == Drop(quality_str, 3)
         IN IF rest = <<"7">> THEN "m7"
            ELSE IF rest = <<"m", "a", "j", "7">> THEN "mM7"
            ELSE IF startswith(rest, <<"a", "d", "d">>) THEN "m" \o Str(rest)
            ELSE "m"
    ELSE IF startswith(quality_str, <<"d", "i", "m">>)
         THEN IF Drop(quality_str, 3) = <<"7">> THEN "dim7" ELSE "dim"
    ELSE IF startswith(quality_str, <<"a", "u", "g">>) THEN "aug"
    ELSE IF startswith(quality_str, <<"s", "u", "s">>) THEN Str(quality_str)
    ELSE IF startswith(quality_str, <<"m", "a", "j">>)
         THEN LET rest == Drop(quality_str, 3)
              IN IF rest = <<"7">> THEN "M7"
                 ELSE IF rest = <<"9">> THEN "M9"
                 ELSE "maj"
    ELSE IF quality_str = <<"7">> THEN "7"
    ELSE IF quality_str = <<"9">> THEN "9"
    ELSE IF quality_str = <<"1", "1">> THEN "11"
    ELSE IF quality_str = <<"1", "3">> THEN "13"
    ELSE IF startswith(quality_str, <<"a", "d", "d">>) THEN Str(quality_str)
    ELSE Str(quality_str)

\* mutant: the power-chord marker is looked for without .lower()
parse_quality_case_sensitive(quality_str) ==
    IF quality_str = <<>> THEN "maj"
    ELSE IF Contains(quality_str, <<"n", "o", "3", "d">>) THEN "5"
    ELSE QualityTable(quality_str)

parse_quality(quality_str) ==
    IF quality_str = <<>> THEN "maj"
    ELSE IF Contains(lower(quality_str), <<"n", "o", "3", "d">>) THEN "5"
    ELSE QualityTable(quality_str)

\* the index of the first "/" of a token that holds one
SlashIdx(chord_str) == CHOOSE i \in 1..Len(chord_str) :
                           chord_str[i] = "/" /\ \A j \in 1..(i - 1) : chord_str[j] # "/"

\* chord_str.split('/', 1)
SplitSlash(chord_str) ==
    << SubSeq(chord_str, 1, SlashIdx(chord_str) - 1), Drop(chord_str, SlashIdx(chord_str)) >>

\* mutant: the root and the quality are parsed from the whole token, bass included
parse_chord_components_whole(chord_str) ==
    LET hasSlash == Contains(chord_str, <<"/">>)
        bass == IF hasSlash THEN Some(normalize_note(SplitSlash(chord_str)[2])) ELSE Nothing
        n == RootMatch(chord_str)
    IN IF n = 0 THEN [raised |-> TRUE, error |-> "ValueError"]
       ELSE [raised |-> FALSE, root |-> normalize_note(Take(chord_str, n)),
             quality |-> parse_quality(Drop(chord_str, n)), bass |-> bass]

\* the tuple (root, quality, bass), or the ValueError raised; bass, an
\* Optional[str], is Nothing (Python's None) or Some(note)
parse_chord_components(chord_str) ==
    LET hasSlash == Contains(chord_str, <<"/">>)
        bass == IF hasSlash THEN Some(normalize_note(SplitSlash(chord_str)[2])) ELSE Nothing
        chord_part == IF hasSlash THEN SplitSlash(chord_str)[1] ELSE chord_str
        n == RootMatch(chord_part)
    IN IF n = 0 THEN [raised |-> TRUE, error |-> "ValueError"]
       ELSE [raised |-> FALSE, root |-> normalize_note(Take(chord_part, n)),
             quality |-> parse_quality(Drop(chord_part, n)), bass |-> bass]

ChordNotation(root, quality, bass, extensions) ==
    [root |-> root, quality |-> quality, bass |-> bass, extensions |-> extensions]

\* mutant: the sentinel carries the raw token as its quality too
normalize_chord_raw_quality(chord_str) ==
    LET parsed == parse_chord_components(chord_str)
    IN IF parsed.raised THEN ChordNotation(Str(chord_str), Str(chord_str), Nothing, <<>>)
       ELSE ChordNotation(parsed.root, parsed.quality, parsed.bass, <<>>)

\* mutant: the root of the sentinel is the part before the slash only
normalize_chord_chord_part(chord_str) ==
    LET parsed == parse_chord_components(chord_str)
        chord_part == IF Contains(chord_str, <<"/">>) THEN SplitSlash(chord_str)[1]
                      ELSE chord_str
    IN IF parsed.raised THEN ChordNotation(Str(chord_part), "unknown", Nothing, <<>>)
       ELSE ChordNotation(parsed.root, parsed.quality, parsed.bass, <<>>)

normalize_chord(chord_str) ==
    LET parsed == parse_chord_components(chord_str)
    IN IF parsed.raised THEN ChordNotation(Str(chord_str), "unknown", Nothing, <<>>)
       ELSE ChordNotation(parsed.root, parsed.quality, parsed.bass, <<>>)

\* ChordNotation.to_simple
to_simple(notation) ==
    IF notation.quality = "maj" THEN notation.root ELSE notation.root \o notation.quality

normalize_chord_simple(chord_str) == to_simple(normalize_chord(chord_str))

(***************************************************************************)
(* Normalizing: a caller passes chord tokens of the dataset, one call at a *)
(* time.                                                                   *)
(***************************************************************************)
\* what a token starts with: note names, and text that is no note name
Heads ==
    { <<"C">>, <<"A">>, <<"D">>, <<"F", "s">>, <<"B", "b">>, <<"E", "s">>, <<"C", "b">>, <<"B">>, <<>>,
      <<"x">>,
      <<"N", ".", "C", ".">>, <<"H">>, <<"c">> }

\* what follows the root
Suffixes ==
    { <<>>, <<"m", "i", "n">>, <<"m", "i", "n", "7">>,
      <<"m", "i", "n", "m", "a", "j", "7">>, <<"m", "i", "n", "a", "d", "d", "9">>,
      <<"m", "i", "n", "6">>, <<"d", "i", "m">>, <<"d", "i", "m", "7">>,
      <<"d", "i", "m", "x">>, <<"a", "u", "g">>, <<"a", "u", "g", "7">>,
      <<"s", "u", "s", "4">>, <<"s", "u", "s", "2">>, <<"m", "a", "j">>,
      <<"m", "a", "j", "7">>, <<"m", "a", "j", "9">>, <<"m", "a", "j", "1", "3">>,
      <<"7">>, <<"9">>, <<"1", "1">>, <<"1", "3">>, <<"a", "d", "d", "9">>,
      <<"n", "o", "3", "d">>, <<"7", "n", "o", "3", "d">>,
      <<"m", "i", "n", "N", "O", "3", "D">>, <<"N", "o", "3", "d">>,
      <<"m", "i", "n", "n", "o", "3", "d">>, <<"6">>, <<"m">>, <<"7", "b", "5">> }

\* the bass part of a slash chord, or nothing
Basses ==
    { <<>>, <<"/", "G">>, <<"/", "F", "s">>, <<"/", "E", "s">>, <<"/", "G", "/", "B">>,
      <<"/">>, <<"/", "x">> }

Tokens == {h \o s \o b : h \in Heads, s \in Suffixes, b \in Basses}

\* the chords in canonical simple form: what normalize_chord_simple returns
\* for the tokens, passed again as tokens
CanonicalForms == {Chars(normalize_chord_simple(t)) : t \in Tokens}

Inputs == Tokens \cup CanonicalForms

NormalizeChord(chord_str) ==
    /\ call = Idle
    /\ call' = [op |-> "normalize_chord", chord_str |-> chord_str,
                result |-> normalize_chord(chord_str)]
    /\ UNCHANGED <<callers, _recommender, df, model, build_args, data, restored, miner, disk, recommender>>

NormalizeChordSimple(chord_str) ==
    /\ call = Idle
    /\ call' = [op |-> "normalize_chord_simple", chord_str |-> chord_str,
                result |-> normalize_chord_simple(chord_str)]
    /\ UNCHANGED <<callers, _recommender, df, model, build_args, data, restored, miner, disk, recommender>>

NextNormalize ==
    \/ \E t \in Inputs : NormalizeChord(t)
    \/ \E t \in Inputs : NormalizeChordSimple(t)
    \/ Return

SpecNormalize == Init /\ [][NextNormalize]_vars

(***************************************************************************)
(* pattern_extractor.py.  PatternMiner.patterns is genre -> length -> list *)
(* of ChordPattern; a pattern's chords is a tuple of chord names.          *)
(***************************************************************************)
PatternMiner_init == <<>>

ChordPattern(chords, count, frequency, genre) ==
    [chords |-> chords, count |-> count, frequency |-> frequency, genre |-> genre]

\* self.patterns[genre][length].append(pattern)
add_pattern(patterns, pattern) ==
    LET lengths == ODGet(patterns, pattern.genre, <<>>)
        length == Len(pattern.chords)
    IN ODPut(patterns, pattern.genre,
             ODPut(lengths, length, Append(ODGet(lengths, length, <<>>), pattern)))

\* default of get_patterns
DefaultPatternsTopN == 20

get_patterns(patterns, genre, length, top_n, min_frequency) ==
    IF ~ODHas(patterns, genre) THEN <<>>
    ELSE IF ~ODHas(ODGet(patterns, genre, <<>>), length) THEN <<>>
    ELSE LET kept == SelectSeq(ODGet(ODGet(patterns, genre, <<>>), length, <<>>),
                               LAMBDA p : RatLe(min_frequency, p.frequency))
             sorted == SortedDesc(kept, [i \in 1..Len(kept) |-> kept[i].frequency])
         IN SubSeq(sorted, 1, IF top_n < Len(sorted) THEN top_n ELSE Len(sorted))

\* the stored patterns of one length that start with the prefix
MatchLength(lengths, prefix, length) ==
    IF ~ODHas(lengths, length) THEN <<>>
    ELSE SelectSeq(ODGet(lengths, length, <<>>),
                   LAMBDA pattern : Take(pattern.chords, Len(prefix)) = prefix)

\* the loop over range(prefix_len, max_pattern_length + 1)
RECURSIVE MatchLengths(_, _, _, _)
MatchLengths(lengths, prefix, length, max_pattern_length) ==
    IF length > max_pattern_length THEN <<>>
    ELSE MatchLength(lengths, prefix, length)
         \o MatchLengths(lengths, prefix, length + 1, max_pattern_length)

\* mutant: the matches are returned in the order they were found
find_matching_patterns_unsorted(patterns, prefix, genre, max_pattern_length) ==
    IF prefix = <<>> \/ ~ODHas(patterns, genre) THEN <<>>
    ELSE MatchLengths(ODGet(patterns, genre, <<>>), prefix, Len(prefix), max_pattern_length)

\* default of find_matching_patterns
DefaultMaxPatternLength == 4

find_matching_patterns(patterns, prefix, genre, max_pattern_length) ==
    IF prefix = <<>> \/ ~ODHas(patterns, genre) THEN <<>>
    ELSE LET matches == MatchLengths(ODGet(patterns, genre, <<>>), prefix, Len(prefix),
                                     max_pattern_length)
         IN SortedDesc(matches, [i \in 1..Len(matches) |-> matches[i].frequency])

\* PatternMiner.get_available_genres
pattern_genres(patterns) == [i \in 1..Len(patterns) |-> patterns[i].k]

\* the store after patterns[genre][length] was evaluated
SubscriptLength(patterns, genre, length) ==
    LET created == Subscript(patterns, genre, <<>>)
    IN ODPut(created, genre, Subscript(ODGet(created, genre, <<>>), length, <<>>))

\* the store after get_patterns: both subscripts follow a test of the key
get_patterns_self(patterns, genre, length) ==
    IF ~ODHas(patterns, genre) THEN patterns
    ELSE IF ~ODHas(ODGet(Subscript(patterns, genre, <<>>), genre, <<>>), length)
    THEN Subscript(patterns, genre, <<>>)
    ELSE SubscriptLength(patterns, genre, length)

\* the store after the loop of find_matching_patterns from a length on
RECURSIVE SubscriptLengths(_, _, _, _)
SubscriptLengths(patterns, genre, length, max_pattern_length) ==
    IF length > max_pattern_length THEN patterns
    ELSE SubscriptLengths(
             IF ~ODHas(ODGet(Subscript(patterns, genre, <<>>), genre, <<>>), length)
             THEN Subscript(patterns, genre, <<>>)
             ELSE SubscriptLength(patterns, genre, length),
             genre, length + 1, max_pattern_length)

\* the store after find_matching_patterns
find_matching_patterns_self(patterns, prefix, genre, max_pattern_length) ==
    IF prefix = <<>> \/ ~ODHas(patterns, genre) THEN patterns
    ELSE SubscriptLengths(patterns, genre, Len(prefix), max_pattern_length)

\* the loop over the windows of one progression (i is 1-based); the test of
\* total_patterns, always true, makes TLC evaluate acc at every round
RECURSIVE CountWindows(_, _, _, _)
CountWindows(acc, chord_list, length, i) ==
    IF acc.total_patterns >= 0 /\ i > Len(chord_list) - length + 1 THEN acc
    ELSE CountWindows([pattern_counts |-> ODInc(acc.pattern_counts,
                                                SubSeq(chord_list, i, i + length - 1)),
                       total_patterns |-> acc.total_patterns + 1],
                      chord_list, length, i + 1)

\* the loop over the progressions of a genre
RECURSIVE CountPatterns(_, _, _, _)
CountPatterns(acc, rows, length, r) ==
    IF acc.total_patterns >= 0 /\ r > Len(rows) THEN acc
    ELSE CountPatterns(IF Len(rows[r].chords) < length THEN acc
                       ELSE CountWindows(acc, rows[r].chords, length, 1),
                       rows, length, r + 1)

\* mutant: the first n patterns counted, whatever their counts
most_common_first_seen(pattern_counts, n) ==
    SubSeq(pattern_counts, 1, IF n < Len(pattern_counts) THEN n ELSE Len(pattern_counts))

\* Counter.most_common(n): by count, largest first, ties in insertion order
most_common(pattern_counts, n) ==
    LET sorted == SortedDesc(pattern_counts,
                             [i \in 1..Len(pattern_counts) |-> <<pattern_counts[i].v, 1>>])
    IN SubSeq(sorted, 1, IF n < Len(sorted) THEN n ELSE Len(sorted))

\* mutant: the count is divided by the number of distinct patterns
PatternFrequency_of_distinct(count, total_patterns, distinct) ==
    IF distinct > 0 THEN Rat(count, distinct) ELSE Zero

\* frequency = count / total_patterns if total_patterns > 0 else 0
PatternFrequency(count, total_patterns, distinct) ==
    IF total_patterns > 0 THEN Rat(count, total_patterns) ELSE Zero

\* the loop over most_common(top_n_per_length)
RECURSIVE StorePatterns(_, _, _, _, _)
StorePatterns(patterns, genre, top, counted, i) ==
    IF i > Len(top) THEN patterns
    ELSE StorePatterns(
             add_pattern(patterns,
                         ChordPattern(top[i].k, top[i].v,
                                      PatternFrequency(top[i].v, counted.total_patterns,
                                                       Len(counted.pattern_counts)),
                                      genre)),
             genre, top, counted, i + 1)

\* the loop over pattern_lengths, for one genre
RECURSIVE ExtractLengths(_, _, _, _, _, _)
ExtractLengths(patterns, rows, genre, pattern_lengths, top_n_per_length, i) ==
    IF i > Len(pattern_lengths) THEN patterns
    ELSE LET counted == CountPatterns([pattern_counts |-> <<>>, total_patterns |-> 0],
                                      rows, pattern_lengths[i], 1)
         IN ExtractLengths(
                StorePatterns(patterns, genre,
                              most_common(counted.pattern_counts, top_n_per_length),
                              counted, 1),
                rows, genre, pattern_lengths, top_n_per_length, i + 1)

\* the loop over valid_genres
RECURSIVE ExtractGenres(_, _, _, _, _, _)
ExtractGenres(patterns, frame, genres, pattern_lengths, top_n_per_length, i) ==
    IF i > Len(genres) THEN patterns
    ELSE ExtractGenres(
             ExtractLengths(patterns, genre_df(frame, genres[i]), genres[i],
                            pattern_lengths, top_n_per_length, 1),
             frame, genres, pattern_lengths, top_n_per_length, i + 1)

\* normalize_fn is None, as in build_markov_model above
extract_patterns(frame, pattern_lengths, min_genre_size, top_n_per_length) ==
    ExtractGenres(PatternMiner_init, frame, valid_genres(frame, min_genre_size),
                  pattern_lengths, top_n_per_length, 1)

(***************************************************************************)
(* Pattern mining: a dataset is loaded, extract_patterns runs once over    *)
(* it, then a caller asks the miner for the patterns that start with a     *)
(* prefix, one call at a time.                                             *)
(***************************************************************************)
\* longest prefix a caller passes
MaxPrefix == 2

\* default of extract_patterns
DefaultTopNPerLength == 100

\* pattern_lengths: the default [2, 3, 4] and shorter lists
PatternLengths == {<<2, 3, 4>>, <<2>>, <<3, 2>>}

TopNPerLengths == {0, 1, 2, 3, DefaultTopNPerLength}

Prefixes == UNION {[1..n -> ContextChords] : n \in 0..MaxPrefix}

MaxPatternLengths == {1, 2, 3, DefaultMaxPatternLength}

ExtractPatterns(pattern_lengths, min_genre_size, top_n_per_length) ==
    /\ ~miner.extracted
    /\ call = Idle
    /\ miner' = [extracted |-> TRUE, pattern_lengths |-> pattern_lengths,
                 min_genre_size |-> min_genre_size,
                 top_n_per_length |-> top_n_per_length,
                 patterns |-> extract_patterns(df, pattern_lengths, min_genre_size,
                                               top_n_per_length)]
    /\ UNCHANGED <<callers, _recommender, df, model, build_args, call, data, restored, disk, recommender>>

FindMatchingPatterns(prefix, genre, max_pattern_length) ==
    /\ miner.extracted
    /\ call = Idle
    /\ call' = [op |-> "find_matching_patterns", prefix |-> prefix, genre |-> genre,
                max_pattern_length |-> max_pattern_length,
                result |-> find_matching_patterns(miner.patterns, prefix, genre,
                                                  max_pattern_length)]
    /\ miner' = [miner EXCEPT !.patterns = find_matching_patterns_self(@, prefix, genre,
                                                                        max_pattern_length)]
    /\ UNCHANGED <<callers, _recommender, df, model, build_args, data, restored, disk, recommender>>

NextPatterns ==
    \/ \E d \in Datasets : LoadDataset(d)
    \/ \E l \in PatternLengths, s \in MinGenreSizes, n \in TopNPerLengths :
           ExtractPatterns(l, s, n)
    \/ \E p \in Prefixes, g \in QueryGenres, n \in MaxPatternLengths :
           FindMatchingPatterns(p, g, n)
    \/ Return

SpecPatterns == Init /\ [][NextPatterns]_vars

(***************************************************************************)
(* Persistence.  A file of the model directory is None (absent) or         *)
(* [json |-> the dictionary dumped]; json.dump and json.load keep the      *)
(* order of the keys and the value of every float, and turn the integer    *)
(* keys of a dictionary into strings.                                      *)
(***************************************************************************)
\* MarkovModel.save: the export under the defaults of to_dict
MarkovModel_save(m) ==
    [json |-> to_dict(m, DefaultMaxPerContext, DefaultProbabilityPrecision,
                      DefaultMinExportProbability)]

\* MarkovModel.load
MarkovModel_load(file) == from_dict(file.json)

\* PatternMiner.to_dict, dumped: the length keys become strings; a pattern
\* keeps its fields
PatternMiner_to_dict(patterns) ==
    [g \in 1..Len(patterns) |->
        [k |-> patterns[g].k,
         v |-> [l \in 1..Len(patterns[g].v) |->
                   [k |-> ToString(patterns[g].v[l].k), v |-> patterns[g].v[l].v]]]]

\* the patterns of a dumped dictionary, in the order from_dict reads them
RECURSIVE DumpedPatterns(_)
DumpedPatterns(d) ==
    IF d = <<>> THEN <<>>
    ELSE LET RECURSIVE lengths(_)
             lengths(ls) == IF ls = <<>> THEN <<>> ELSE ls[1].v \o lengths(Tail(ls))
         IN lengths(d[1].v) \o DumpedPatterns(Tail(d))

RECURSIVE AddPatterns(_, _, _)
AddPatterns(patterns, items, i) ==
    IF i > Len(items) THEN patterns
    ELSE AddPatterns(add_pattern(patterns, items[i]), items, i + 1)

\* PatternMiner.from_dict: every pattern is added again, under its own length
PatternMiner_from_dict(d) == AddPatterns(PatternMiner_init, DumpedPatterns(d), 1)

(***************************************************************************)
(* recommender.py.  A method of ChordRecommender is an operator of the     *)
(* recommender r and the model directory dir; it gives the recommender     *)
(* after the call (self) and what the call returned or raised.             *)
(***************************************************************************)
MODEL_DIR == "trained"

markov_path == MODEL_DIR \o "/markov_model.json"

\* the message of the FileNotFoundError, in its parts
MissingModelMessage ==
    <<"Markov model not found at ", markov_path, ". ", "Run build_models.py first.">>

\* mutant: load does not look at _loaded
load_again(r, dir) ==
    IF dir.markov = None
    THEN [raised |-> TRUE, error |-> "FileNotFoundError", message |-> MissingModelMessage,
          self |-> r]
    ELSE [raised |-> FALSE,
          self |-> [markov |-> MarkovModel_load(dir.markov),
                    patterns |-> IF dir.patterns # None
                                 THEN [patterns |-> PatternMiner_from_dict(dir.patterns.json)]
                                 ELSE None,
                    loaded |-> TRUE,
                    reads |-> r.reads + 1]]

\* mutant: a missing model file gives an empty model
load_empty(r, dir) ==
    IF r.loaded THEN [raised |-> FALSE, self |-> r]
    ELSE [raised |-> FALSE,
          self |-> [markov |-> IF dir.markov = None THEN MarkovModel_init
                               ELSE MarkovModel_load(dir.markov),
                    patterns |-> IF dir.patterns # None
                                 THEN [patterns |-> PatternMiner_from_dict(dir.patterns.json)]
                                 ELSE None,
                    loaded |-> TRUE,
                    reads |-> IF dir.markov = None THEN r.reads ELSE r.reads + 1]]

load(r, dir) ==
    IF r.loaded THEN [raised |-> FALSE, self |-> r]
    ELSE IF dir.markov = None
    THEN [raised |-> TRUE, error |-> "FileNotFoundError", message |-> MissingModelMessage,
          self |-> r]
    ELSE [raised |-> FALSE,
          self |-> [markov |-> MarkovModel_load(dir.markov),
                    patterns |-> IF dir.patterns # None
                                 THEN [patterns |-> PatternMiner_from_dict(dir.patterns.json)]
                                 ELSE None,
                    loaded |-> TRUE,
                    reads |-> r.reads + 1]]

\* mutant: the flag is not looked at, the models are always loaded
needs_load_always(r) == TRUE

\* if not self._loaded (the test of every query, and of load() itself)
needs_load(r) == ~r.loaded

\* self.markov = MarkovModel.load(markov_path)
read_markov(r, dir) == [r EXCEPT !.markov = MarkovModel_load(dir.markov), !.reads = @ + 1]

\* self.patterns = PatternMiner.from_dict(json.load(f)), or None
read_patterns(r, dir) ==
    [r EXCEPT !.patterns = IF dir.patterns # None
                           THEN [patterns |-> PatternMiner_from_dict(dir.patterns.json)]
                           ELSE None]

\* self._loaded = True
set_loaded(r) == [r EXCEPT !.loaded = TRUE]

\* mutant: the thresholds include their boundary values
categorize_inclusive(probability, friction) ==
    IF RatLe(<<1, 20>>, probability) /\ RatLe(friction, <<3, 10>>) THEN "common"
    ELSE IF RatLe(probability, <<1, 100>>) \/ RatLe(<<7, 10>>, friction) THEN "adventurous"
    ELSE "interesting"

\* ChordRecommender._categorize; 0.05 is 1/20, 0.3 is 3/10, 0.01 is 1/100, 0.7 is 7/10
categorize(probability, friction) ==
    IF RatLt(<<1, 20>>, probability) /\ RatLt(friction, <<3, 10>>) THEN "common"
    ELSE IF RatLt(probability, <<1, 100>>) \/ RatLt(<<7, 10>>, friction) THEN "adventurous"
    ELSE "interesting"

Recommendation(chord, probability, category, friction_score, count) ==
    [chord |-> chord, probability |-> probability, category |-> category,
     friction_score |-> friction_score, count |-> count]

\* default min_probability of MarkovModel.get_recommendations
DefaultMinProbability == <<1, 1000>>

\* the loop over markov_recs
Recommendations(m, markov_recs, genre) ==
    [i \in 1..Len(markov_recs) |->
        LET friction == get_friction_score(m, markov_recs[i].to_chord, genre)
        IN Recommendation(markov_recs[i].to_chord, markov_recs[i].probability,
                          categorize(markov_recs[i].probability, friction), friction,
                          markov_recs[i].count)]

\* ChordRecommender.get_recommendations; current_chord is a token
recommender_get_recommendations(r, dir, current_chord, genre, top_n, normalize) ==
    LET loading == load(r, dir)
        chord == IF normalize THEN normalize_chord_simple(current_chord)
                 ELSE Str(current_chord)
        markov_recs == get_recommendations(loading.self.markov, chord, genre, top_n * 2,
                                           DefaultMinProbability, <<>>)
        recommendations == Recommendations(loading.self.markov, markov_recs, genre)
    IN IF loading.raised THEN loading
       ELSE [raised |-> FALSE, self |-> loading.self, chord |-> chord,
             markov_recs |-> markov_recs,
             result |-> IF markov_recs = <<>> THEN <<>>
                        ELSE Truncate(recommendations, top_n)]

\* ChordRecommender.find_patterns; prefix is a list of tokens
recommender_find_patterns(r, dir, prefix, genre, max_length, normalize) ==
    LET loading == load(r, dir)
        chords == [i \in 1..Len(prefix) |->
                      IF normalize THEN normalize_chord_simple(prefix[i]) ELSE Str(prefix[i])]
    IN IF loading.raised THEN loading
       ELSE [raised |-> FALSE, self |-> loading.self,
             result |-> IF loading.self.patterns = None THEN <<>>
                        ELSE find_matching_patterns(loading.self.patterns.patterns, chords,
                                                    genre, max_length)]

\* ChordRecommender.get_available_genres
recommender_get_available_genres(r, dir) ==
    LET loading == load(r, dir)
    IN IF loading.raised THEN loading
       ELSE [raised |-> FALSE, self |-> loading.self,
             result |-> get_available_genres(loading.self.markov)]

\* mutant: the two thresholds of the friction are swapped
recommender_get_chord_stats_swapped(r, dir, chord, genre, normalize) ==
    LET loading == load(r, dir)
        name == IF normalize THEN normalize_chord_simple(chord) ELSE Str(chord)
        frequency == get_chord_frequency(loading.self.markov, name, genre)
        friction == get_friction_score(loading.self.markov, name, genre)
    IN IF loading.raised THEN loading
       ELSE [raised |-> FALSE, self |-> loading.self,
             result |-> [chord |-> name, genre |-> genre, frequency |-> frequency,
                         friction_score |-> friction,
                         category |-> IF RatLt(friction, <<7, 10>>) THEN "common"
                                      ELSE IF RatLt(<<3, 10>>, friction) THEN "adventurous"
                                      ELSE "interesting"]]

\* ChordRecommender.get_chord_stats; chord is a token
recommender_get_chord_stats(r, dir, chord, genre, normalize) ==
    LET loading == load(r, dir)
        name == IF normalize THEN normalize_chord_simple(chord) ELSE Str(chord)
        frequency == get_chord_frequency(loading.self.markov, name, genre)
        friction == get_friction_score(loading.self.markov, name, genre)
    IN IF loading.raised THEN loading
       ELSE [raised |-> FALSE, self |-> loading.self,
             result |-> [chord |-> name, genre |-> genre, frequency |-> frequency,
                         friction_score |-> friction,
                         category |-> IF RatLt(friction, <<3, 10>>) THEN "common"
                                      ELSE IF RatLt(<<7, 10>>, friction) THEN "adventurous"
                                      ELSE "interesting"]]

(***************************************************************************)
(* Recommending: build_models.py trains on a dataset and saves the Markov  *)
(* model, then the patterns; a ChordRecommender on the model directory is  *)
(* queried at any time, one call at a time.                                *)
(***************************************************************************)
\* twelve progressions C G C and one C Dm: Dm is 1 chord in 38
RareChordData ==
    [i \in 1..13 |-> IF i < 13 THEN Row("pop", <<"C", "G", "C">>)
                     ELSE Row("pop", <<"C", "Dm">>)]

RecommenderDatasets ==
    { ScenarioData, RareChordData,
      << Row("pop", <<"C", "G", "Am", "F">>), Row("rock", <<"C", "G", "C">>),
         Row("pop", <<"C", "G", "Am", "F">>), Row("pop", <<"G", "C", "G", "Am", "F">>),
         Row("pop", <<"C", "G", "Dm">>), Row("pop", <<"C", "G", "Am", "F", "E", "E">>) >> }

\* chord tokens a caller passes
QueryTokens ==
    { <<"C">>, <<"G">>, <<"A", "m", "i", "n">>, <<"A", "m">>, <<"C", "/", "G">>, <<"D", "m", "i", "n">>, <<"B", "d", "i", "m">>, <<"x">> }

PrefixTokens == {<<"C">>, <<"G">>, <<"A", "m", "i", "n">>}

TokenPrefixes == UNION {[1..n -> PrefixTokens] : n \in 0..MaxPrefix}

MaxLengths == {2, DefaultMaxPatternLength}

\* probabilities and friction scores around the thresholds of _categorize
Probabilities ==
    {Zero, <<1, 200>>, <<1, 100>>, <<3, 100>>, <<1, 20>>, <<1, 10>>, One}

Frictions ==
    {Zero, <<1, 10>>, <<3, 10>>, <<1, 2>>, <<7, 10>>, <<9, 10>>, One}

\* markov_model.save(markov_path)
SaveMarkov ==
    /\ build_args.built
    /\ disk.markov = None
    /\ call = Idle
    /\ disk' = [disk EXCEPT !.markov = MarkovModel_save(model)]
    /\ UNCHANGED <<callers, _recommender, df, model, build_args, call, data, restored, miner, recommender>>

\* json.dump(pattern_miner.to_dict(), f)
SavePatterns ==
    /\ miner.extracted
    /\ disk.patterns = None
    /\ call = Idle
    /\ disk' = [disk EXCEPT !.patterns = [json |-> PatternMiner_to_dict(miner.patterns)]]
    /\ UNCHANGED <<callers, _recommender, df, model, build_args, call, data, restored, miner, recommender>>

\* a call of a method of the recommender: the recommender becomes the one
\* after the call, and the call holds the arguments and the outcome
Called(arguments, outcome) ==
    /\ call = Idle
    /\ call' = arguments @@ outcome
    /\ recommender' = outcome.self
    /\ UNCHANGED <<callers, _recommender, df, model, build_args, data, restored, miner, disk>>

Load == Called([op |-> "load"], load(recommender, disk))

RecommenderGetRecommendations(current_chord, genre, top_n, normalize) ==
    Called([op |-> "recommender.get_recommendations", current_chord |-> current_chord,
            genre |-> genre, top_n |-> top_n, normalize |-> normalize],
           recommender_get_recommendations(recommender, disk, current_chord, genre, top_n,
                                           normalize))

FindPatterns(prefix, genre, max_length, normalize) ==
    Called([op |-> "recommender.find_patterns", prefix |-> prefix, genre |-> genre,
            max_length |-> max_length, normalize |-> normalize],
           recommender_find_patterns(recommender, disk, prefix, genre, max_length, normalize))

GetAvailableGenres ==
    Called([op |-> "recommender.get_available_genres"],
           recommender_get_available_genres(recommender, disk))

GetChordStats(chord, genre, normalize) ==
    Called([op |-> "recommender.get_chord_stats", chord_str |-> chord, genre |-> genre,
            normalize |-> normalize],
           recommender_get_chord_stats(recommender, disk, chord, genre, normalize))

Categorize(probability, friction) ==
    /\ call = Idle
    /\ call' = [op |-> "_categorize", probability |-> probability, friction |-> friction,
                result |-> categorize(probability, friction)]
    /\ UNCHANGED <<callers, _recommender, df, model, build_args, data, restored, miner, disk, recommender>>

NextRecommender ==
    \/ \E d \in RecommenderDatasets : LoadDataset(d)
    \/ \E s \in MinGenreSizes : Build(s, DefaultMinBigramCount, DefaultMinTrigramCount)
    \/ SaveMarkov
    \/ \E s \in MinGenreSizes : ExtractPatterns(<<2, 3, 4>>, s, DefaultTopNPerLength)
    \/ SavePatterns
    \/ Load
    \/ \E c \in QueryTokens, g \in QueryGenres, n \in 0..MaxTopN, b \in BOOLEAN :
           RecommenderGetRecommendations(c, g, n, b)
    \/ \E p \in TokenPrefixes, g \in QueryGenres, n \in MaxLengths, b \in BOOLEAN :
           FindPatterns(p, g, n, b)
    \/ GetAvailableGenres
    \/ \E c \in QueryTokens, g \in QueryGenres, b \in BOOLEAN : GetChordStats(c, g, b)
    \/ \E p \in Probabilities, f \in Frictions : Categorize(p, f)
    \/ \E c \in QueryChords, g \in QueryGenres, ctx \in Contexts :
           GetRecommendations(c, g, MaxTopN, DefaultMinProbability, ctx)
    \/ Return

SpecRecommender == Init /\ [][NextRecommender]_vars

(***************************************************************************)
(* Claims about the recommender.                                           *)
(***************************************************************************)
\* the methods of ChordRecommender that answer a query
QueryMethods ==
    { "recommender.get_recommendations", "recommender.find_patterns",
      "recommender.get_available_genres", "recommender.get_chord_stats" }

\* the methods that load the models
LoadingMethods == QueryMethods \cup {"load"}

\* the call in progress returned (it did not raise)
Returned(op) == call.op = op /\ ~call.raised

\* the rule of the categories, in the order it is stated
CategoryRule(probability, friction) ==
    LET common == RatLt(<<1, 20>>, probability) /\ RatLt(friction, <<3, 10>>)
        adventurous == RatLt(probability, <<1, 100>>) \/ RatLt(<<7, 10>>, friction)
    IN CASE common -> "common"
         [] ~common /\ adventurous -> "adventurous"
         [] OTHER -> "interesting"

\* the boundary values belong to "interesting"
BoundaryRule(probability, friction, category) ==
    /\ (probability = <<1, 20>> /\ RatLe(friction, <<7, 10>>)) => category = "interesting"
    /\ (friction = <<3, 10>> /\ RatLe(<<1, 100>>, probability)) => category = "interesting"
    /\ (friction = <<7, 10>> /\ RatLe(<<1, 100>>, probability)) => category = "interesting"

\* C11: _categorize gives "common" iff probability > 0.05 and friction < 0.3,
\* otherwise "adventurous" iff probability < 0.01 or friction > 0.7, otherwise
\* "interesting" (the boundary values 0.05, 0.3 and 0.7 give "interesting"),
\* and every Recommendation get_recommendations returns has the category of
\* its own probability and friction score
C11_Categorize ==
    /\ call.op = "_categorize"
           => /\ call.result = CategoryRule(call.probability, call.friction)
              /\ BoundaryRule(call.probability, call.friction, call.result)
    /\ Returned("recommender.get_recommendations")
           => \A i \in 1..Len(call.result) :
                  call.result[i].category
                      = CategoryRule(call.result[i].probability, call.result[i].friction_score)

\* a recommendation that is not "common": Dm after C, 1 chord in 38
C11_Witness ==
    /\ Returned("recommender.get_recommendations")
    /\ \E i \in 1..Len(call.result) :
           /\ call.result[i].category = "adventurous"
           /\ RatLt(<<1, 20>>, call.result[i].probability)

\* a step that is a call of a loading method
Calls(methods) == call = Idle /\ call'.op \in methods

\* C12: the first query on a recommender whose model files exist reads the
\* persisted models; once loaded, no call reads again or changes the loaded
\* objects, the answers come from them, and load() changes nothing
C12_LazyLoad ==
    /\ [][ /\ (Calls(QueryMethods) /\ ~recommender.loaded /\ disk.markov # None)
                => /\ recommender'.loaded
                   /\ recommender'.reads = recommender.reads + 1
                   /\ recommender'.markov = MarkovModel_load(disk.markov)
                   /\ ~call'.raised
           /\ recommender.loaded => recommender' = recommender
           /\ (Calls({"recommender.get_available_genres"}) /\ recommender.loaded)
                => call'.result = get_available_genres(recommender.markov)
         ]_vars
    /\ [](recommender.reads <= 1)

\* a query answered after the patterns were saved by a recommender that had
\* loaded before: the patterns it holds are still those it loaded (none)
C12_Witness ==
    /\ call.op \in QueryMethods
    /\ recommender.loaded
    /\ recommender.reads = 1
    /\ disk.patterns # None
    /\ recommender.patterns = None

\* the message names the script that trains the models
TellsHowToTrain(message) == \E i \in 1..Len(message) : message[i] = "Run build_models.py first."

\* C13: while markov_model.json is absent, load and every query method raise
\* FileNotFoundError with a message that tells to run build_models.py, return
\* nothing, and leave the recommender as it was: not loaded, no models
C13_MissingModel ==
    /\ [][ (Calls(LoadingMethods) /\ disk.markov = None)
               => /\ call'.raised
                  /\ call'.error = "FileNotFoundError"
                  /\ TellsHowToTrain(call'.message)
                  /\ "result" \notin DOMAIN call'
                  /\ recommender' = recommender
         ]_vars
    /\ [](disk.markov = None => recommender = ChordRecommender_init)

\* a query that failed on a missing model file
C13_Witness ==
    /\ call.op \in QueryMethods
    /\ call.raised
    /\ disk.markov = None
    /\ ~recommender.loaded

\* the model holds the chord for the genre: the chord was counted in training
Known(m, genre, chord) ==
    /\ ODHas(m.chord_frequencies, genre)
    /\ ODHas(ODGet(m.chord_frequencies, genre, <<>>), chord)

\* the category of a friction score alone
FrictionCategory(friction) ==
    CASE RatLt(friction, <<3, 10>>) -> "common"
      [] RatLt(<<7, 10>>, friction) -> "adventurous"
      [] OTHER -> "interesting"

\* C14: a chord or genre the model does not hold is no error: both
\* get_recommendations return an empty list and get_chord_stats a record of
\* frequency 0; get_chord_stats takes the category from the friction alone
C14_MissingData ==
    /\ (IsRecommendations /\ ~Known(model, call.genre, call.current_chord))
           => call.result = <<>>
    /\ (Returned("recommender.get_recommendations")
            /\ ~Known(recommender.markov, call.genre, call.chord))
           => call.markov_recs = <<>> /\ call.result = <<>>
    /\ Returned("recommender.get_chord_stats")
           => /\ ~Known(recommender.markov, call.genre, call.result.chord)
                    => call.result.frequency = Zero
              /\ call.result.category = FrictionCategory(call.result.friction_score)

\* the statistics of a chord the loaded model does not hold, in a genre it holds
C14_Witness ==
    /\ Returned("recommender.get_chord_stats")
    /\ ODHas(recommender.markov.chord_frequencies, call.genre)
    /\ ~Known(recommender.markov, call.genre, call.result.chord)
    /\ call.result.frequency = Zero
    /\ call.result.category = "adventurous"

(***************************************************************************)
(* Claims about the patterns.  The windows of the training data are        *)
(* counted directly on the DataFrame.                                      *)
(***************************************************************************)
\* the patterns the miner stores for a genre and a length
Stored(genre, length) == ODGet(ODGet(miner.patterns, genre, <<>>), length, <<>>)

\* all the patterns the miner stores for a genre
StoredOfGenre(genre) ==
    UNION { {Stored(genre, l)[i] : i \in 1..Len(Stored(genre, l))} :
                l \in ODKeys(ODGet(miner.patterns, genre, <<>>)) }

\* the windows of size length over the progressions of a genre: (row, start)
WindowsOf(genre, length) ==
    UNION { {<<r, i>> : i \in 1..(Len(df[r].chords) - length + 1)} :
                r \in {q \in 1..Len(df) : df[q].genre = genre} }

WindowAt(w, length) == SubSeq(df[w[1]].chords, w[2], w[2] + length - 1)

\* how many windows of the genre equal the chords
WindowCount(genre, chords) ==
    Cardinality({w \in WindowsOf(genre, Len(chords)) : WindowAt(w, Len(chords)) = chords})

\* w1 is met before w2 by a reader of the DataFrame
Before(w1, w2) == w1[1] < w2[1] \/ (w1[1] = w2[1] /\ w1[2] < w2[2])

\* chords1 is first met before chords2
FirstSeenBefore(genre, chords1, chords2) ==
    \E w1 \in WindowsOf(genre, Len(chords1)) :
        /\ WindowAt(w1, Len(chords1)) = chords1
        /\ \A w2 \in WindowsOf(genre, Len(chords2)) :
               WindowAt(w2, Len(chords2)) = chords2 => Before(w1, w2)

\* the counts of a list of patterns, added up
RECURSIVE SumCounts(_)
SumCounts(stored) == IF stored = <<>> THEN 0 ELSE stored[1].count + SumCounts(Tail(stored))

\* the genres extract_patterns retains
PatternGenres == {g \in Genres : ProgressionCount(g) >= miner.min_genre_size /\ ProgressionCount(g) > 0}

RequestedLengths == {miner.pattern_lengths[i] : i \in 1..Len(miner.pattern_lengths)}

\* C15: find_matching_patterns returns exactly the stored patterns of the
\* genre of length len(prefix)..max_pattern_length whose first len(prefix)
\* chords are the prefix, each once, by non-increasing frequency; the list is
\* empty for an empty prefix, an unknown genre or a prefix longer than
\* max_pattern_length
C15_Matching ==
    call.op = "find_matching_patterns" =>
        LET prefix == call.prefix
            matching == { p \in StoredOfGenre(call.genre) :
                            /\ Len(prefix) <= Len(p.chords)
                            /\ Len(p.chords) <= call.max_pattern_length
                            /\ SubSeq(p.chords, 1, Len(prefix)) = prefix }
            result == call.result
        IN /\ prefix # <<>> =>
                 /\ {result[i] : i \in 1..Len(result)} = matching
                 /\ Len(result) = Cardinality(matching)
                 /\ \A i \in 1..(Len(result) - 1) :
                        RatLe(result[i + 1].frequency, result[i].frequency)
           /\ prefix = <<>> => result = <<>>
           /\ ~ODHas(miner.patterns, call.genre) => result = <<>>
           /\ Len(prefix) > call.max_pattern_length => result = <<>>

\* matches of two lengths, the longer one the more frequent
C15_Witness ==
    /\ call.op = "find_matching_patterns"
    /\ \E i, j \in 1..Len(call.result) :
           /\ i < j
           /\ Len(call.result[i].chords) > Len(call.result[j].chords)
           /\ RatLt(call.result[j].frequency, call.result[i].frequency)

\* the documented scenario: length 2 on the three progressions
Scenario5 == miner.extracted /\ df = ScenarioData /\ 2 \in RequestedLengths
                 /\ miner.min_genre_size <= 3 /\ miner.top_n_per_length >= 1

\* C16: for a retained genre and a requested length, at most top_n_per_length
\* patterns are stored, by non-increasing count, equal counts in the order
\* they were first met, and no window left out has a higher count than a
\* stored one; in the scenario (C, G), of count 2, is stored first
C16_TopPatterns ==
    miner.extracted =>
        /\ \A g \in PatternGenres, l \in RequestedLengths :
               LET stored == Stored(g, l)
                   kept == {stored[i].chords : i \in 1..Len(stored)}
               IN /\ Len(stored) <= miner.top_n_per_length
                  /\ \A i, j \in 1..Len(stored) :
                         i < j => \/ stored[i].count > stored[j].count
                                  \/ /\ stored[i].count = stored[j].count
                                     /\ FirstSeenBefore(g, stored[i].chords, stored[j].chords)
                  /\ \A w \in WindowsOf(g, l) :
                         WindowAt(w, l) \notin kept
                             => \A i \in 1..Len(stored) :
                                    WindowCount(g, WindowAt(w, l)) <= stored[i].count
        /\ Scenario5 =>
               /\ Stored("pop", 2)[1].chords = <<"C", "G">>
               /\ Stored("pop", 2)[1].count = 2
               /\ \A i \in 2..Len(Stored("pop", 2)) : Stored("pop", 2)[i].count = 1

\* the scenario with room for two patterns of length 2 only: (C, G) and the
\* first met of the five patterns of count 1
C16_Witness ==
    /\ Scenario5
    /\ miner.top_n_per_length = 2
    /\ Len(Stored("pop", 2)) = 2
    /\ Stored("pop", 2)[2].chords = <<"G", "Am">>

\* C17: a stored pattern's count is the number of windows of its length, over
\* the progressions of its genre, that equal its chords, and its frequency is
\* that count divided by the number of all the windows of that length
C17_Frequency ==
    miner.extracted =>
        \A g \in Genres : \A l \in ODKeys(ODGet(miner.patterns, g, <<>>)) :
            \A i \in 1..Len(Stored(g, l)) :
                LET p == Stored(g, l)[i]
                IN /\ p.genre = g
                   /\ Len(p.chords) = l
                   /\ p.count = WindowCount(g, p.chords)
                   /\ p.count > 0
                   /\ p.frequency = Rat(p.count, Cardinality(WindowsOf(g, l)))

\* a stored pattern whose frequency counts windows the top-N cut left out
C17_Witness ==
    /\ miner.extracted
    /\ \E g \in Genres, l \in RequestedLengths :
           /\ Len(Stored(g, l)) = miner.top_n_per_length
           /\ Len(Stored(g, l)) > 0
           /\ SumCounts(Stored(g, l)) < Cardinality(WindowsOf(g, l))

(***************************************************************************)
(* Claims about the normalizer.  A token is read as the claims read it:    *)
(* the chord part before the first "/", the bass part after it, the root   *)
(* at the head of the chord part and the suffix after the root.            *)
(***************************************************************************)
IsSlashChord(token) == \E i \in 1..Len(token) : token[i] = "/"

FirstSlash(token) == CHOOSE i \in 1..Len(token) :
                         token[i] = "/" /\ \A j \in 1..(i - 1) : token[j] # "/"

ChordPartOf(token) ==
    IF IsSlashChord(token) THEN SubSeq(token, 1, FirstSlash(token) - 1) ELSE token

BassPartOf(token) == SubSeq(token, FirstSlash(token) + 1, Len(token))

NoteLetters == {"A", "B", "C", "D", "E", "F", "G"}

\* the chord part starts with a note letter
Parseable(token) == ChordPartOf(token) # <<>> /\ ChordPartOf(token)[1] \in NoteLetters

\* the root: the note letter and the s or b that follows it
RootOf(token) ==
    LET part == ChordPartOf(token)
    IN IF ~Parseable(token) THEN <<>>
       ELSE IF Len(part) >= 2 /\ part[2] \in {"s", "b"} THEN SubSeq(part, 1, 2)
       ELSE SubSeq(part, 1, 1)

SuffixOf(token) == SubSeq(ChordPartOf(token), Len(RootOf(token)) + 1, Len(ChordPartOf(token)))

\* a note of the dataset in standard notation: the sharps Cs, Ds, Fs, Gs and
\* As take a #, every other text is kept
NoteRule(note) ==
    IF Len(note) = 2 /\ note[1] \in {"C", "D", "F", "G", "A"} /\ note[2] = "s"
    THEN note[1] \o "#"
    ELSE Str(note)

\* the rule table of the qualities; any_case tells whether the power-chord
\* marker is looked for in any letter case
QualityRule(suffix, any_case) ==
    LET marked == Contains(IF any_case THEN lower(suffix) ELSE suffix, <<"n", "o", "3", "d">>)
        after == Drop(suffix, 3)
        prefix == Take(suffix, 3)
    IN CASE suffix = <<>> -> "maj"
         [] suffix # <<>> /\ marked -> "5"
         [] OTHER ->
              CASE prefix = <<"m", "i", "n">> ->
                       ( CASE after = <<"7">> -> "m7"
                           [] after = <<"m", "a", "j", "7">> -> "mM7"
                           [] Take(after, 3) = <<"a", "d", "d">> -> "m" \o Str(after)
                           [] OTHER -> "m" )
                [] prefix = <<"d", "i", "m">> -> (IF after = <<"7">> THEN "dim7" ELSE "dim")
                [] prefix = <<"a", "u", "g">> -> "aug"
                [] prefix = <<"m", "a", "j">> ->
                       ( CASE after = <<"7">> -> "M7"
                           [] after = <<"9">> -> "M9"
                           [] OTHER -> "maj" )
                [] OTHER -> Str(suffix)

\* the notation returned for a token that cannot be parsed
Sentinel(token) ==
    [root |-> Str(token), quality |-> "unknown", bass |-> Nothing, extensions |-> <<>>]

\* C18: normalize_chord always returns a notation; for a token whose chord
\* part does not start with a note letter A-G it is the sentinel: the root
\* is the whole token, the quality "unknown", no bass, no extensions
C18_Sentinel ==
    call.op = "normalize_chord" =>
        /\ DOMAIN call.result = {"root", "quality", "bass", "extensions"}
        /\ ~Parseable(call.chord_str) => call.result = Sentinel(call.chord_str)

\* a slash chord whose chord part is no chord: the root is the whole token
C18_Witness ==
    /\ call.op = "normalize_chord"
    /\ ~Parseable(call.chord_str)
    /\ IsSlashChord(call.chord_str)
    /\ BassPartOf(call.chord_str) = <<"G">>
    /\ call.result.root = Str(call.chord_str)
    /\ call.result.bass = Nothing

\* the two documented tokens
QualityScenarios ==
    call.op = "normalize_chord_simple" =>
        /\ call.chord_str = <<"A", "m", "i", "n", "7">> => call.result = "Am7"
        /\ call.chord_str = <<"F", "s", "n", "o", "3", "d">> => call.result = "F#5"

\* the quality of every parseable token is given by the rule table
QualityByRule(any_case) ==
    (call.op = "normalize_chord" /\ Parseable(call.chord_str))
        => call.result.quality = QualityRule(SuffixOf(call.chord_str), any_case)

\* C19 as stated: the power-chord rule applies to a suffix that contains
\* "no3d", written so
C19_AsStated == QualityByRule(FALSE) /\ QualityScenarios

\* C19: the quality of a parseable token is given by the rule table applied
\* to the suffix after the root, where the power-chord rule applies to a
\* suffix that contains "no3d" in any letter case; "Amin7" gives "Am7" and
\* "Fsno3d" gives "F#5"
C19_QualityTable == QualityByRule(TRUE) /\ QualityScenarios

\* a power chord whose marker is not in lower case
C19_Witness ==
    /\ call.op = "normalize_chord"
    /\ Parseable(call.chord_str)
    /\ ~Contains(SuffixOf(call.chord_str), <<"n", "o", "3", "d">>)
    /\ Contains(lower(SuffixOf(call.chord_str)), <<"n", "o", "3", "d">>)
    /\ call.result.quality = "5"

\* the simple form of a root and a quality
SimpleForm(root, quality) == IF quality = "maj" THEN root ELSE root \o quality

\* the three documented slash chords
SlashScenarios ==
    /\ call.op = "normalize_chord" =>
           /\ call.chord_str = <<"C", "/", "G">>
                  => call.result = [root |-> "C", quality |-> "maj", bass |-> Some("G"),
                                    extensions |-> <<>>]
           /\ call.chord_str = <<"D", "/", "F", "s">> => call.result.bass = Some("F#")
    /\ call.op = "normalize_chord_simple" =>
           /\ call.chord_str = <<"C", "/", "G">> => call.result = "C"
           /\ call.chord_str = <<"D", "/", "F", "s">> => call.result = "D"
           /\ call.chord_str = <<"A", "m", "i", "n", "/", "G">> => call.result = "Am"

\* root and quality come from the chord part, the bass from the bass part,
\* and the simple form holds neither the bass nor a quality "maj"
SlashRule(token, result, simple) ==
    LET root == NoteRule(RootOf(token))
        quality == QualityRule(SuffixOf(token), TRUE)
    IN IF simple THEN result = SimpleForm(root, quality)
       ELSE /\ result.root = root
            /\ result.quality = quality
            /\ result.bass = Some(NoteRule(BassPartOf(token)))

\* C20 as stated: of every slash chord X/Y
C20_AsStated ==
    /\ (call.op \in {"normalize_chord", "normalize_chord_simple"}
            /\ IsSlashChord(call.chord_str))
           => SlashRule(call.chord_str, call.result, call.op = "normalize_chord_simple")
    /\ SlashScenarios

\* C20: of a slash chord X/Y whose X starts with a note letter, the root and
\* the quality are parsed from X only, the bass is Y with the sharps Cs, Ds,
\* Fs, Gs, As written with # (any other Y is kept as it is), and the simple
\* form holds neither the bass nor the quality "maj"; "C/G" gives root "C",
\* quality "maj", bass "G", simple form "C"; "D/Fs" gives "D" with bass "F#";
\* "Amin/G" gives "Am"
C20_SlashChord ==
    /\ (call.op \in {"normalize_chord", "normalize_chord_simple"}
            /\ IsSlashChord(call.chord_str) /\ Parseable(call.chord_str))
           => SlashRule(call.chord_str, call.result, call.op = "normalize_chord_simple")
    /\ SlashScenarios

\* a slash chord with a quality and a sharp bass
C20_Witness ==
    /\ call.op = "normalize_chord"
    /\ IsSlashChord(call.chord_str)
    /\ Parseable(call.chord_str)
    /\ call.result.quality = "m7"
    /\ call.result.bass = Some("F#")

\* the valid pitch-class names
PitchClasses ==
    {"C", "C#", "Db", "D", "D#", "Eb", "E", "F", "F#", "Gb", "G", "G#", "Ab", "A", "A#", "Bb", "B"}

\* the two-character roots the regular expression accepts and NOTE_MAPPING
\* does not hold
UnmappedRoots == {<<"E", "s">>, <<"B", "s">>, <<"C", "b">>, <<"F", "b">>}

\* a token with no modifier after its root has the quality "maj"
MajorByDefault ==
    (call.op = "normalize_chord" /\ Parseable(call.chord_str) /\ SuffixOf(call.chord_str) = <<>>)
        => call.result.quality = "maj"

\* C21 as stated: the root of every returned notation is a valid pitch-class
\* name, and the quality is "maj" when no modifier follows the root
C21_AsStated ==
    /\ call.op = "normalize_chord" => call.result.root \in PitchClasses
    /\ MajorByDefault

\* C21: for a token whose chord part starts with a note letter A-G the root
\* is that letter with the s or b that follows it, the sharps Cs, Ds, Fs, Gs
\* and As written with #: a valid pitch-class name unless the chord part
\* starts with Es, Bs, Cb or Fb, which are kept as written; for any other
\* token the root is the whole raw token; the quality is "maj" when no
\* modifier follows the root
C21_Root ==
    /\ call.op = "normalize_chord" =>
           IF Parseable(call.chord_str)
           THEN /\ call.result.root = NoteRule(RootOf(call.chord_str))
                /\ RootOf(call.chord_str) \notin UnmappedRoots
                       => call.result.root \in PitchClasses
                /\ RootOf(call.chord_str) \in UnmappedRoots
                       => call.result.root = Str(RootOf(call.chord_str))
           ELSE call.result.root = Str(call.chord_str)
    /\ MajorByDefault

\* a sharp of the dataset that has no standard name in NOTE_MAPPING
C21_Witness ==
    /\ call.op = "normalize_chord"
    /\ RootOf(call.chord_str) = <<"E", "s">>
    /\ SuffixOf(call.chord_str) = <<>>
    /\ call.result.root = "Es"
    /\ call.result.quality = "maj"

\* the notation of the simple form of a notation
Renormalized(notation) == normalize_chord(Chars(to_simple(notation)))

\* C22: for a chord x in canonical simple form, the notation of the simple
\* form of normalize_chord(x) has the quality of normalize_chord(x)
C22_SameQuality ==
    (call.op = "normalize_chord" /\ call.chord_str \in CanonicalForms)
        => Renormalized(call.result).quality = call.result.quality

\* a canonical form that is not its own simple form: the sentinel of a
\* token that cannot be parsed, which has the quality "unknown" again
C22_Witness ==
    /\ call.op = "normalize_chord"
    /\ call.chord_str \in CanonicalForms
    /\ to_simple(call.result) # Str(call.chord_str)
    /\ call.result.quality = "unknown"
    /\ Renormalized(call.result).quality = "unknown"

(***************************************************************************)
(* Claims about the contexts of order 2 and 3.  A context of a genre is    *)
(* read from the dataset: n consecutive chords of a progression of the     *)
(* genre that a next chord follows.                                        *)
(***************************************************************************)
\* the places (row, position) where the n chords ctx are followed by a chord
ContextPlaces(genre, ctx) ==
    {p \in UNION {{<<r, i>> : i \in 1..(Len(df[r].chords) - Len(ctx))} :
                      r \in {q \in 1..Len(df) : df[q].genre = genre}} :
        SubSeq(df[p[1]].chords, p[2], p[2] + Len(ctx) - 1) = ctx}

\* the contexts of n chords observed in a genre
ObservedContexts(genre, n) ==
    UNION {{SubSeq(df[r].chords, i, i + n - 1) : i \in 1..(Len(df[r].chords) - n)} :
              r \in {q \in 1..Len(df) : df[q].genre = genre}}

\* the places where chord follows the context
NextPlaces(genre, ctx, chord) ==
    {p \in ContextPlaces(genre, ctx) : df[p[1]].chords[p[2] + Len(ctx)] = chord}

ContextTable(n) == IF n = 2 THEN model.bigram_transitions ELSE model.trigram_transitions

MinContextCount(n) ==
    IF n = 2 THEN build_args.min_bigram_count ELSE build_args.min_trigram_count

\* the keys kept for a genre in the table of the contexts of n chords
KeptKeys(genre, n) == ODKeys(ODGet(ContextTable(n), genre, <<>>))

\* C23: for every retained genre, an observed order-2 (order-3) context is
\* kept if and only if the number of transitions observed out of it in the
\* genre is at least min_bigram_count (min_trigram_count); a kept context
\* holds every observed next chord, and no other, with probability count
\* divided by the context total; and every kept key is the separator-joined
\* sequence of 2 (3) consecutive chords of a progression of the genre
C23_Contexts ==
    Built =>
        \A g \in RetainedGenres, n \in {2, 3} :
            /\ \A ctx \in ObservedContexts(g, n) :
                   LET total == Cardinality(ContextPlaces(g, ctx))
                       kept == Join(ctx) \in KeptKeys(g, n)
                       entry == Entry(ContextTable(n), g, Join(ctx))
                   IN /\ kept <=> total >= MinContextCount(n)
                      /\ kept => \A c \in Chords :
                             LET count == Cardinality(NextPlaces(g, ctx, c))
                             IN /\ ODHas(entry, c) <=> count > 0
                                /\ count > 0 => ODGet(entry, c, Zero) = Rat(count, total)
            /\ \A k \in KeptKeys(g, n) : \E ctx \in ObservedContexts(g, n) : k = Join(ctx)

\* a genre with a kept and a dropped context of each order, the kept
\* order-2 context holding an improbable next chord
C23_Witness ==
    /\ Built
    /\ build_args.min_bigram_count > 1
    /\ \E g \in RetainedGenres :
           /\ \A n \in {2, 3} :
                  /\ KeptKeys(g, n) # {}
                  /\ \E ctx \in ObservedContexts(g, n) : Join(ctx) \notin KeptKeys(g, n)
           /\ \E k \in KeptKeys(g, 2) :
                  Len(Entry(model.bigram_transitions, g, k)) >= 2

(***************************************************************************)
(* Claims about a token read as a root of the dataset's alphabet and a     *)
(* suffix.                                                                 *)
(***************************************************************************)
\* the roots of the dataset: a note letter, alone or with the marker s or b
RootNames ==
    {<<l>> : l \in NoteLetters} \cup {<<l, marker>> : l \in NoteLetters, marker \in {"s", "b"}}

\* the token is the root followed by a suffix that starts with "sus"
IsSusChord(token, root) ==
    /\ ~IsSlashChord(token)
    /\ startswith(token, root)
    /\ startswith(Drop(token, Len(root)), <<"s", "u", "s">>)

\* C24: for a token made of a root of the alphabet and a suffix that starts
\* with "sus", normalize_chord returns that root and the suffix as the
\* quality, and the simple form is the root followed by the suffix
C24_SusPassThrough ==
    \A root \in RootNames :
        (call.op \in {"normalize_chord", "normalize_chord_simple"}
             /\ IsSusChord(call.chord_str, root)) =>
            /\ call.op = "normalize_chord" =>
                   /\ call.result.root = NoteRule(root)
                   /\ call.result.quality = Str(Drop(call.chord_str, Len(root)))
            /\ call.op = "normalize_chord_simple" =>
                   call.result = NoteRule(root) \o Str(Drop(call.chord_str, Len(root)))

(***************************************************************************)
(* Read-only queries: a model is trained and patterns are extracted, then  *)
(* a caller queries the MarkovModel and the PatternMiner, one call at a    *)
(* time, with known and unknown genres, chords and contexts.               *)
(***************************************************************************)
\* default of get_patterns
DefaultMinFrequency == <<1, 1000>>

PatternQueryLengths == {1, 2, DefaultMaxPatternLength}

GetChordFrequency(chord, genre) ==
    /\ call = Idle
    /\ call' = [op |-> "get_chord_frequency", chord |-> chord, genre |-> genre,
                result |-> get_chord_frequency(model, chord, genre)]
    /\ model' = get_chord_frequency_self(model, chord, genre)
    /\ UNCHANGED <<callers, _recommender, miner, disk, recommender, df, build_args, data, restored>>

\* MarkovModel.get_available_genres: list(self.transitions.keys())
ModelGetAvailableGenres ==
    /\ call = Idle
    /\ call' = [op |-> "get_available_genres", result |-> get_available_genres(model)]
    /\ UNCHANGED <<callers, _recommender, miner, disk, recommender, df, model, build_args, data, restored>>

GetPatterns(genre, length, top_n, min_frequency) ==
    /\ miner.extracted
    /\ call = Idle
    /\ call' = [op |-> "get_patterns", genre |-> genre, length |-> length, top_n |-> top_n,
                min_frequency |-> min_frequency,
                result |-> get_patterns(miner.patterns, genre, length, top_n, min_frequency)]
    /\ miner' = [miner EXCEPT !.patterns = get_patterns_self(@, genre, length)]
    /\ UNCHANGED <<callers, _recommender, df, model, build_args, data, restored, disk, recommender>>

NextReadOnly ==
    \/ \E d \in Datasets : LoadDataset(d)
    \/ \E s \in MinGenreSizes, b \in MinBigramCounts, t \in MinTrigramCounts : Build(s, b, t)
    \/ \E s \in MinGenreSizes : ExtractPatterns(<<2, 3, 4>>, s, DefaultTopNPerLength)
    \/ \E c \in QueryChords, g \in QueryGenres, ctx \in Contexts :
           GetRecommendations(c, g, MaxTopN, DefaultMinProbability, ctx)
    \/ \E c \in QueryChords, g \in QueryGenres : GetChordFrequency(c, g)
    \/ \E c \in QueryChords, g \in QueryGenres : GetFrictionScore(c, g)
    \/ ModelGetAvailableGenres
    \/ \E g \in QueryGenres, l \in PatternQueryLengths :
           GetPatterns(g, l, DefaultPatternsTopN, DefaultMinFrequency)
    \/ \E p \in Prefixes, g \in QueryGenres, n \in MaxPatternLengths :
           FindMatchingPatterns(p, g, n)
    \/ Return

SpecReadOnly == Init /\ [][NextReadOnly]_vars

\* the queries of the MarkovModel and of the PatternMiner
ReadOnlyQueries ==
    {"get_recommendations", "get_chord_frequency", "get_friction_score",
     "get_available_genres", "get_patterns", "find_matching_patterns"}

\* C25: a query of the MarkovModel or of the PatternMiner, whatever its
\* genre, chord, context or prefix, leaves every transition table, the
\* frequency table, genre_totals and the pattern store as they were, so the
\* available genres are the same before and after
C25_ReadOnly ==
    [][(call = Idle /\ call'.op \in ReadOnlyQueries) =>
           /\ model' = model
           /\ miner' = miner
           /\ get_available_genres(model') = get_available_genres(model)]_vars

\* a trained model and a pattern store queried for a genre they do not
\* hold, which is still not a key of any table
C25_Witness ==
    /\ Built
    /\ miner.extracted
    /\ model.transitions # <<>>
    /\ miner.patterns # <<>>
    /\ call.op \in {"get_recommendations", "find_matching_patterns"}
    /\ call.genre = "jazz"
    /\ call.result = <<>>
    /\ ~ODHas(model.transitions, "jazz")
    /\ ~ODHas(miner.patterns, "jazz")

(***************************************************************************)
(* Concurrent callers.  Several threads call query methods of one          *)
(* recommender; a thread can be preempted between any two statements of    *)
(* the query and of load(), so each statement is a step: the test of       *)
(* _loaded in the query (pc "query"), the test in load() ("load"), the     *)
(* test of the model file ("exists"), the two reads ("read_markov",        *)
(* "read_patterns"), the assignment of _loaded ("set_loaded") and the      *)
(* rest of the query ("answer").                                           *)
(***************************************************************************)
At(t, pc) == callers[t].pc = pc

Goto(t, pc) == callers' = [callers EXCEPT ![t].pc = pc]

\* a thread calls a query method
CallQuery(t) ==
    /\ At(t, "idle")
    /\ callers' = [callers EXCEPT ![t].pc = "query", ![t].called = TRUE]
    /\ UNCHANGED <<df, model, build_args, call, data, restored, miner, disk, recommender,
                   _recommender>>

\* if not self._loaded: self.load()
TestLoaded(t) ==
    /\ At(t, "query")
    /\ callers' = [callers EXCEPT ![t].pc = IF needs_load(recommender) THEN "load" ELSE "answer",
                                  ![t].observed = needs_load(recommender)]
    /\ UNCHANGED <<df, model, build_args, call, data, restored, miner, disk, recommender,
                   _recommender>>

\* load(): if self._loaded: return
LoadTest(t) ==
    /\ At(t, "load")
    /\ Goto(t, IF needs_load(recommender) THEN "exists" ELSE "answer")
    /\ UNCHANGED <<df, model, build_args, call, data, restored, miner, disk, recommender,
                   _recommender>>

\* if not markov_path.exists(): raise FileNotFoundError
Exists(t) ==
    /\ At(t, "exists")
    /\ Goto(t, IF disk.markov = None THEN "idle" ELSE "read_markov")
    /\ UNCHANGED <<df, model, build_args, call, data, restored, miner, disk, recommender,
                   _recommender>>

ReadMarkov(t) ==
    /\ At(t, "read_markov")
    /\ recommender' = read_markov(recommender, disk)
    /\ callers' = [callers EXCEPT ![t].pc = "read_patterns", ![t].reads = @ + 1]
    /\ UNCHANGED <<df, model, build_args, call, data, restored, miner, disk, _recommender>>

ReadPatterns(t) ==
    /\ At(t, "read_patterns")
    /\ recommender' = read_patterns(recommender, disk)
    /\ Goto(t, "set_loaded")
    /\ UNCHANGED <<df, model, build_args, call, data, restored, miner, disk, _recommender>>

SetLoaded(t) ==
    /\ At(t, "set_loaded")
    /\ recommender' = set_loaded(recommender)
    /\ Goto(t, "answer")
    /\ UNCHANGED <<df, model, build_args, call, data, restored, miner, disk, _recommender>>

\* the rest of the query reads the loaded models and returns
Answer(t) ==
    /\ At(t, "answer")
    /\ Goto(t, "idle")
    /\ UNCHANGED <<df, model, build_args, call, data, restored, miner, disk, recommender,
                   _recommender>>

NextConcurrent ==
    \/ \E d \in RecommenderDatasets : LoadDataset(d)
    \/ \E s \in MinGenreSizes : Build(s, DefaultMinBigramCount, DefaultMinTrigramCount)
    \/ SaveMarkov
    \/ \E s \in MinGenreSizes : ExtractPatterns(<<2, 3, 4>>, s, DefaultTopNPerLength)
    \/ SavePatterns
    \/ \E t \in Callers : CallQuery(t)
    \/ \E t \in Callers : TestLoaded(t)
    \/ \E t \in Callers : LoadTest(t)
    \/ \E t \in Callers : Exists(t)
    \/ \E t \in Callers : ReadMarkov(t)
    \/ \E t \in Callers : ReadPatterns(t)
    \/ \E t \in Callers : SetLoaded(t)
    \/ \E t \in Callers : Answer(t)

SpecConcurrent == Init /\ [][NextConcurrent]_vars

\* the callers that have called the recommender
HaveCalled == {t \in Callers : callers[t].called}

RECURSIVE SumReads(_)
SumReads(t) == IF t = 0 THEN 0 ELSE callers[t].reads + SumReads(t - 1)

\* C26: the persisted models are read once per caller at most, and every
\* read is made by a caller that observed _loaded as false; so the models
\* are read at most once while a single caller uses the recommender, and
\* nothing but the number of callers limits the reads of interleaved callers
C26_ReadsPerCaller ==
    /\ recommender.reads = SumReads(NumCallers)
    /\ \A t \in Callers : callers[t].reads <= 1
    /\ \A t \in Callers : callers[t].pc \in {"read_markov", "read_patterns", "set_loaded"}
                               => callers[t].observed
    /\ recommender.reads <= Cardinality(HaveCalled)
    /\ Cardinality(HaveCalled) <= 1 => recommender.reads <= 1

\* two interleaved callers that both observed _loaded as false and both
\* read the persisted models
C26_Witness ==
    /\ \E t1, t2 \in Callers :
           /\ t1 # t2
           /\ callers[t1].observed /\ callers[t1].reads = 1
           /\ callers[t2].observed /\ callers[t2].reads = 1
    /\ recommender.reads >= 2
    /\ recommender.loaded

\* C27: normalize_chord_simple is idempotent: for a chord that is the
\* simple form of a token, such as the keys of a model trained on
\* normalized chords, normalize_chord_simple returns the chord itself
C27_Idempotent ==
    (call.op = "normalize_chord_simple" /\ call.chord_str \in CanonicalForms)
        => call.result = Str(call.chord_str)

(***************************************************************************)
(* The global singleton.  get_recommender() is called, one call at a time, *)
(* before and after build_models.py has written the model files.           *)
(***************************************************************************)
\* get_recommender: g is the global _recommender; the outcome holds the
\* global after the call and the value returned, or the error raised by
\* load(), which is called after the global was assigned
get_recommender(g, dir) ==
    IF g # None THEN [raised |-> FALSE, global |-> g, result |-> g]
    ELSE LET loading == load(ChordRecommender_init, dir)
         IN IF loading.raised
            THEN [raised |-> TRUE, error |-> loading.error, message |-> loading.message,
                  global |-> ChordRecommender_init]
            ELSE [raised |-> FALSE, global |-> loading.self, result |-> loading.self]

GetRecommender ==
    /\ call = Idle
    /\ call' = [op |-> "get_recommender"] @@ get_recommender(_recommender, disk)
    /\ _recommender' = get_recommender(_recommender, disk).global
    /\ UNCHANGED <<df, model, build_args, data, restored, miner, disk, recommender, callers>>

NextSingleton ==
    \/ \E d \in RecommenderDatasets : LoadDataset(d)
    \/ \E s \in MinGenreSizes : Build(s, DefaultMinBigramCount, DefaultMinTrigramCount)
    \/ SaveMarkov
    \/ \E s \in MinGenreSizes : ExtractPatterns(<<2, 3, 4>>, s, DefaultTopNPerLength)
    \/ SavePatterns
    \/ GetRecommender
    \/ Return

SpecSingleton == Init /\ [][NextSingleton]_vars

\* every value get_recommender returns is loaded and holds its Markov model
ReturnsLoaded ==
    (call.op = "get_recommender" /\ ~call.raised)
        => call.result.loaded /\ call.result.markov # None

\* a call that failed leaves the global unset
FailureLeavesUnset == (call.op = "get_recommender" /\ call.raised) => _recommender = None

\* C28: every value returned by get_recommender() is a loaded
\* ChordRecommender, also after a call that failed because the model file
\* was missing, and a failed call leaves the global singleton unset
C28_Singleton == ReturnsLoaded /\ FailureLeavesUnset

====
